---- MODULE Spec2Model ----
(***************************************************************************)
(* Model of the agentapi unified middleware: the sync hub (package sync),  *)
(* the middleware manager (package middleware) and the authenticator       *)
(* (package auth).                                                         *)
(*                                                                         *)
(* Hub part: one supervisor goroutine (runHub), one heartbeat goroutine    *)
(* (runHeartbeat), the manager's cleanup goroutine (runCleanup), and per   *)
(* WebSocket connection a reader and a writer goroutine; an SSE            *)
(* connection is served by its HTTP handler goroutine.  Go channels are    *)
(* sequences; an unbuffered channel is a rendezvous between the blocked    *)
(* sender and the supervisor's select.  A Go runtime panic (send on a      *)
(* closed channel, close of a closed channel) kills the process: it is     *)
(* recorded in `panic` and no action is enabled afterwards.                *)
(*                                                                         *)
(* Request part: one HTTP request travelling down the router's stack and   *)
(* its response writer.  Function part: the error layer's status-to-code   *)
(* switch and sanitizer (package errors) and the bearer-token check.       *)
(* Session part: the Claude session registry (package claude) with the     *)
(* request goroutines of handleClaudeMessage and the clock they read, the   *)
(* session endpoints (GET, DELETE) and the periodic CleanupSessions pass.  *)
(* Forward part: forwardToClaudeCode's retry loop against a scripted       *)
(* backend.  Key part: the authenticator's API-key map as the goroutines   *)
(* of concurrent requests enter and leave its accesses.                    *)
(***************************************************************************)
EXTENDS Integers, Sequences, FiniteSets, TLC

\* ------------------------------------------------------------------ bounds
MaxConns == 2      \* connections ever accepted
BufferSize == 2    \* SyncConfig.BufferSize: capacity of broadcast and of every Send queue
MaxMsgs == 2       \* envelopes producers may push onto the broadcast channel
MaxPings == 1      \* ping frames read over all connections
MaxBeats == 1      \* heartbeat ticks
MaxUpdates == 2    \* UpdateConfig calls

Conns == 1..MaxConns
Users == {"u1"}
Agents == {"", "a1"}
SubjectIDs == Agents \ {""}

\* message id used by handleSendMessage ("msg_123")
MessageID == 123

VARIABLES
    clients,     \* s.clients: the registry, as the set of registered connection ids
    client,      \* Client struct per connection id: kind, UserID, AgentID
    Send,        \* client.Send: buffered channel contents, entries [msg, seq]
    closed,      \* whether client.Send has been closed
    rpc,         \* position of handleWebSocket / handleClientRead per connection
    wpc,         \* position of handleClientWrite (or of the handleSSE loop) per connection
    broadcast,   \* s.broadcast: buffered channel contents
    hub,         \* runHub: [pc, arg]
    hbPc,        \* runHeartbeat position
    clPc,        \* Manager.runCleanup position
    cancelled,   \* ctx.Done() of the context given to Start is closed
    panic,       \* "none" or the runtime panic that killed the process
    nMsgs,       \* envelopes produced for the broadcast channel so far
    nPings,      \* ping frames read so far
    nBeats,      \* heartbeat ticks so far
    \* ---- history (ghost) variables
    nEnq,        \* per connection: number of successful enqueues on Send
    written,     \* per connection: seq stamps of the envelopes written to the peer, in order
    sseNull,     \* per connection: the SSE loop has emitted a "data: null" frame
    seen,        \* per connection: untargeted broadcasts processed while registered and never drained
    unregSent,   \* per connection: sends of itself to s.unregister
    removed,     \* per connection: times it was deleted from the registry while present
    lastSub      \* per connection: the agent_id of the last subscribe message that carried one

hubVars == <<clients, client, Send, closed, rpc, wpc, broadcast, hub, hbPc, clPc,
             cancelled, panic, nMsgs, nPings, nBeats, nEnq, written, sseNull, seen, unregSent,
             removed, lastSub>>

VARIABLES
    config,      \* Manager.config: [Enabled: per layer, Type: auth type]
    enabled,     \* the `enabled` field of each layer object
    authType,    \* AuthMiddleware.config.Type
    chain,       \* Manager.chain, as the sequence of layer names
    router,      \* the middleware stack ApplyToRouter installed on the router
    apiKeys,     \* AuthMiddleware.apiKeys: the registered API keys
    req,         \* the HTTP request travelling down the router's stack
    nUpdates     \* UpdateConfig calls so far

chainVars == <<config, enabled, authType, chain, router, apiKeys, req, nUpdates>>

VARIABLES
    statusCode,  \* HandleError: the statusCode argument
    errCode,     \* HandleError: the code it chose ("": not called yet)
    message,     \* the error message a layer is about to emit, as a sequence of characters
    emitted,     \* the messages written to the client so far, as [layer, text] records
    sanitizeSecrets, \* ErrorConfig.SanitizeSecrets
    jwt,         \* the bearer token presented: signature and claims
    jwtResult    \* validateJWT's verdict on it: "pending", "accepted" or "rejected"

funcVars == <<statusCode, errCode, message, emitted, sanitizeSecrets, jwt, jwtResult>>

VARIABLES
    now,         \* the clock time.Now() reads
    sessions,    \* ClaudeMiddleware.sessions: session id -> reference of the session object (0: absent)
    heap,        \* the ClaudeSession objects allocated so far, by reference
    thr,         \* per request goroutine: position in handleClaudeMessage and its locals
    nReqs,       \* Claude requests accepted so far
    gc,          \* the CleanupSessions pass: where it is, its cutoff, the ids it has yet to visit
    replies      \* the responses of the session endpoints (GET, DELETE), oldest first

sessVars == <<now, sessions, heap, thr, nReqs, gc, replies>>

VARIABLES
    script,      \* what the backend does on its 1st, 2nd, ... call: a status, or 0 for a transport error
    maxRetries,  \* ClaudeConfig.MaxRetries
    decodable,   \* whether the body of a 200 reply decodes as a ClaudeResponse
    fwd          \* the forward of one request: backend calls made, outcome, response written

fwdVars == <<script, maxRetries, decodable, fwd>>

VARIABLES
    keyAcc,      \* per goroutine, the access to AuthMiddleware.apiKeys it is inside of
    keyFault     \* whether the runtime has stopped the program for a concurrent map access

keyVars == <<keyAcc, keyFault>>

\* the variables the actions of each part leave alone
nonHubVars == <<chainVars, funcVars, sessVars, fwdVars, keyVars>>
nonChainVars == <<hubVars, funcVars, sessVars, fwdVars, keyVars>>
nonFuncVars == <<hubVars, chainVars, sessVars, fwdVars, keyVars>>
nonSessVars == <<hubVars, chainVars, funcVars, fwdVars, keyVars>>
nonFwdVars == <<hubVars, chainVars, funcVars, sessVars, keyVars>>
nonKeyVars == <<hubVars, funcVars, sessVars, fwdVars>>

vars == <<hubVars, chainVars, funcVars, sessVars, fwdVars, keyVars>>

\* ------------------------------------------------------------- data shapes
\* SyncMessage: the fields that drive control flow (type, targets) and the payload id
SyncMessage(t, u, a, d) == [type |-> t, UserID |-> u, AgentID |-> a, Data |-> d]

NoClient == [kind |-> "none", UserID |-> "", AgentID |-> ""]

\* generateClientID: a fresh id; ids are handed out in increasing order
FreshID(c) == client[c].kind = "none" /\ \A d \in Conns : d < c => client[d].kind # "none"

\* len(s.clients)
GetClientCount == Cardinality(clients)

Alive == panic = "none"

\* ---------------------------------------------------------- pure functions
\* shouldReceiveMessage(client, message)
shouldReceiveMessage(c, m) ==
    IF m.UserID = "" /\ m.AgentID = "" THEN TRUE
    ELSE IF m.UserID # "" /\ client[c].UserID = m.UserID THEN TRUE
    ELSE IF m.AgentID # "" /\ client[c].AgentID = m.AgentID THEN TRUE
    ELSE FALSE

\* variant of TrySend for a queue without a capacity limit: the send never finds it full
TrySendUnbounded(c) == IF closed[c] THEN "panic" ELSE "sent"

\* the result of `select { case ch <- m: default: }` on a buffered channel of capacity BufferSize
\* "panic" when the channel is closed, "sent" when there is room, "full" otherwise
TrySend(c) ==
    IF closed[c] THEN "panic"
    ELSE IF Len(Send[c]) < BufferSize THEN "sent"
    ELSE "full"

\* the channel contents after a successful buffered send
Enqueue(c, m) == Append(Send[c], [msg |-> m, seq |-> nEnq[c] + 1])

\* variant of Dequeue that takes the newest element instead of the oldest
DequeueLast(q) == [elem |-> q[Len(q)], rest |-> SubSeq(q, 1, Len(q) - 1)]

\* the element a receive takes from the channel, and what stays behind
Dequeue(q) == [elem |-> Head(q), rest |-> Tail(q)]

\* a connection whose writer has taken nothing from its queue
NeverDrained(c) == written[c] = <<>> /\ wpc[c] # "failed" /\ ~sseNull[c]

\* ------------------------------------------------------- middleware chain
\* the layers, in the order buildChain appends them
Layers == <<"errors", "response", "auth", "validation", "sync", "claude">>

LayerSet == {Layers[i] : i \in 1..Len(Layers)}

\* AuthConfig.Type: the two supported values and an unsupported one
AuthTypes == {"bearer", "api_key", "oauth"}

\* what a request presents: nothing, an Authorization bearer header with a
\* well-signed JWT carrying user_id, one with a token jwt.Parse rejects, or an
\* X-API-Key header carrying the key "k1"
Credentials == {"none", "jwt_valid", "jwt_invalid", "api_key"}

\* request targets registered by registerRoutes: the WebSocket upgrade /ws, a
\* /claude/ path, GET /health, POST /auth/login with a username and a password in
\* the body, any other route
Paths == {"ws", "claude", "health", "login", "api"}

\* MiddlewareConfig: the fields that decide control flow in the chain
MiddlewareConfig(e, t) == [Enabled |-> e, Type |-> t]

Configs == {MiddlewareConfig(e, t) : e \in [LayerSet -> BOOLEAN], t \in AuthTypes}

CreateDefaultConfig == MiddlewareConfig([l \in LayerSet |-> TRUE], "bearer")

\* the configurations servers are created from: the default one with any of the
\* authenticator, the validator and the sync hub switched off, and any auth type
InitConfigs ==
    {cfg \in Configs : \A l \in LayerSet \ {"auth", "validation", "sync"} : cfg.Enabled[l]}

\* the configurations a PUT /middleware/config body may carry next: those that
\* differ from c in one field
Edits(c) ==
    {MiddlewareConfig([c.Enabled EXCEPT ![l] = ~@], c.Type) : l \in LayerSet}
        \cup {MiddlewareConfig(c.Enabled, t) : t \in AuthTypes \ {c.Type}}

\* ValidateConfig, on the modelled fields: an enabled authenticator needs a supported type
ValidateConfig(cfg) == cfg.Enabled["auth"] => cfg.Type \in {"bearer", "api_key"}

\* buildChain: append each layer's handler, in this order, if the layer is enabled
buildChain(en) ==
    LET add(ch, l) == IF en[l] THEN Append(ch, l) ELSE ch
    IN add(add(add(add(add(add(<<>>, "errors"), "response"), "auth"), "validation"),
               "sync"), "claude")

\* a request and its response writer: status is the status line (0: no header
\* written yet), envelopes the number of StandardResponse bodies written, code and
\* envID the error code and request_id of the last one, raw whether a body that is
\* not a StandardResponse was written, hdrID the X-Request-ID header, ctxID the
\* RequestID of the RequestContext ("": none), recovered and escaped what became
\* of a panic, oversize whether its Content-Length exceeds the (positive)
\* ValidationConfig.MaxRequestSize, snap the layers' configuration when it entered
\* the chain, recorded when that configuration is first replaced under it
NoRequest == [state |-> "idle", pos |-> 0, cred |-> "none", path |-> "api", ran |-> <<>>,
              oversize |-> FALSE, snap |-> CreateDefaultConfig,
              status |-> 0, code |-> "", handler |-> FALSE, authFailed |-> FALSE,
              stale |-> FALSE, envelopes |-> 0, envID |-> "", raw |-> FALSE,
              hdrID |-> "", ctxID |-> "", recovered |-> FALSE, escaped |-> FALSE]

\* CreateEnhancedServer: NewManager (initializeMiddleware, buildChain) and
\* ApplyToRouter, which installs the chain on the router once
CreateEnhancedServer(cfg) ==
    /\ config = cfg
    /\ enabled = cfg.Enabled
    /\ authType = cfg.Type
    /\ chain = buildChain(cfg.Enabled)
    /\ router = buildChain(cfg.Enabled)
    /\ apiKeys = {}
    /\ req = NoRequest
    /\ nUpdates = 0

\* ------------------------------------------------- error codes and messages
\* the statuses of the specified table, and one outside it
StatusCodes == {400, 401, 403, 404, 405, 408, 409, 422, 429, 500, 502, 503, 504, 418}

\* HandleError's switch on statusCode
HandleErrorCode(st) ==
    CASE st = 400 -> "BAD_REQUEST"
      [] st = 401 -> "UNAUTHORIZED"
      [] st = 403 -> "FORBIDDEN"
      [] st = 404 -> "NOT_FOUND"
      [] st = 405 -> "METHOD_NOT_ALLOWED"
      [] st = 409 -> "CONFLICT"
      [] st = 429 -> "RATE_LIMITED"
      [] st = 500 -> "INTERNAL_SERVER_ERROR"
      [] st = 502 -> "BAD_GATEWAY"
      [] st = 503 -> "SERVICE_UNAVAILABLE"
      [] st = 504 -> "GATEWAY_TIMEOUT"
      [] OTHER -> "UNKNOWN_ERROR"

\* strings are sequences of one-character strings
UpperLetters == <<"A", "B", "C", "D", "E", "F", "G", "H", "I", "J", "K", "L", "M", "N", "O", "P", "Q", "R", "S", "T", "U", "V", "W", "X", "Y", "Z">>
LowerLetters == <<"a", "b", "c", "d", "e", "f", "g", "h", "i", "j", "k", "l", "m", "n", "o", "p", "q", "r", "s", "t", "u", "v", "w", "x", "y", "z">>

\* strings.ToLower
ToLower(str) ==
    [i \in 1..Len(str) |->
        IF \E k \in 1..Len(UpperLetters) : UpperLetters[k] = str[i]
        THEN LowerLetters[CHOOSE k \in 1..Len(UpperLetters) : UpperLetters[k] = str[i]]
        ELSE str[i]]

\* substr occurs in str at position i
OccursAt(str, substr, i) ==
    /\ i + Len(substr) - 1 <= Len(str)
    /\ \A j \in 1..Len(substr) : str[i + j - 1] = substr[j]

\* strings.Contains
Contains(str, substr) == \E i \in 1..Len(str) : OccursAt(str, substr, i)

\* strings.ReplaceAll from position i on: non-overlapping occurrences, left to right
RECURSIVE ReplaceFrom(_, _, _, _)
ReplaceFrom(str, old, new, i) ==
    IF i > Len(str) THEN <<>>
    ELSE IF OccursAt(str, old, i) THEN new \o ReplaceFrom(str, old, new, i + Len(old))
    ELSE <<str[i]>> \o ReplaceFrom(str, old, new, i + 1)

ReplaceAll(str, old, new) == ReplaceFrom(str, old, new, 1)

\* sanitizeMessage's pattern list, in its order
sensitivePatterns ==
    << <<"p", "a", "s", "s", "w", "o", "r", "d">>,
       <<"t", "o", "k", "e", "n">>,
       <<"k", "e", "y">>,
       <<"s", "e", "c", "r", "e", "t">>,
       <<"a", "u", "t", "h">>,
       <<"c", "r", "e", "d", "e", "n", "t", "i", "a", "l">> >>

Redacted == <<"[", "R", "E", "D", "A", "C", "T", "E", "D", "]">>

\* sanitizeMessage's loop from pattern k on: a pattern found in the lower-cased
\* message is replaced where it occurs literally in the message itself
RECURSIVE sanitizeFrom(_, _)
sanitizeFrom(sanitized, k) ==
    IF k > Len(sensitivePatterns) THEN sanitized
    ELSE LET pattern == sensitivePatterns[k]
         IN sanitizeFrom(IF Contains(ToLower(sanitized), pattern)
                         THEN ReplaceAll(sanitized, pattern, Redacted)
                         ELSE sanitized, k + 1)

sanitizeMessage(msg) == sanitizeFrom(msg, 1)

\* a message names a sensitive key in some letter case
Sensitive(msg) ==
    \E k \in 1..Len(sensitivePatterns) : Contains(ToLower(msg), sensitivePatterns[k])

\* messages of errors handed to HandleError: "bad request", "invalid key",
\* "invalid Key", "TOKEN expired", "my password and Password"
Messages ==
    { <<"b", "a", "d", " ", "r", "e", "q", "u", "e", "s", "t">>,
      <<"i", "n", "v", "a", "l", "i", "d", " ", "k", "e", "y">>,
      <<"i", "n", "v", "a", "l", "i", "d", " ", "K", "e", "y">>,
      <<"T", "O", "K", "E", "N", " ", "e", "x", "p", "i", "r", "e", "d">>,
      <<"m", "y", " ", "p", "a", "s", "s", "w", "o", "r", "d", " ", "a", "n", "d", " ", "P", "a", "s", "s", "w", "o", "r", "d">> }

\* the messages extractToken and validateAPIKey produce: "missing authorization
\* header", "invalid authorization header format", "missing API key", "invalid API key"
AuthMessages ==
    { <<"m", "i", "s", "s", "i", "n", "g", " ", "a", "u", "t", "h", "o", "r", "i", "z", "a", "t", "i", "o", "n", " ", "h", "e", "a", "d", "e", "r">>,
      <<"i", "n", "v", "a", "l", "i", "d", " ", "a", "u", "t", "h", "o", "r", "i", "z", "a", "t", "i", "o", "n", " ", "h", "e", "a", "d", "e", "r", " ", "f", "o", "r", "m", "a", "t">>,
      <<"m", "i", "s", "s", "i", "n", "g", " ", "A", "P", "I", " ", "k", "e", "y">>,
      <<"i", "n", "v", "a", "l", "i", "d", " ", "A", "P", "I", " ", "k", "e", "y">> }

\* emissions recorded per behaviour
MaxEmits == 2

\* ------------------------------------------------------------ bearer tokens
\* a JWT as validateJWT sees it: whether its HMAC signature verifies under the
\* configured secret, and its claims (iss equal to the configured issuer, another
\* one, or absent; exp and iat relative to the time of validation, or absent)
Tokens ==
    [signed : BOOLEAN, user_id : {"string", "absent"}, iss : {"configured", "other", "absent"},
     exp : {"future", "past", "absent"}, iat : {"past", "future", "absent"}]

\* GenerateJWT: user_id, the configured issuer, exp after now, iat now, signed HS256
GenerateJWT ==
    [signed |-> TRUE, user_id |-> "string", iss |-> "configured", exp |-> "future", iat |-> "past"]

\* jwt.Parse with the key function and no parser option: the signature must
\* verify, and an exp claim, if present, must not have passed; iss and iat are
\* not examined and no claim is required
jwtParse(tok) == tok.signed /\ tok.exp # "past"

\* validateJWT: parse, then require a string user_id claim
validateJWT(tok) ==
    IF ~jwtParse(tok) THEN "rejected"
    ELSE IF tok.user_id = "string" THEN "accepted"
    ELSE "rejected"

\* no pure function is under examination
FuncIdle ==
    /\ statusCode = 500
    /\ errCode = ""
    /\ message = <<>>
    /\ emitted = <<>>
    /\ sanitizeSecrets = TRUE
    /\ jwt = GenerateJWT
    /\ jwtResult = "pending"

\* ---------------------------------------------------------- Claude sessions
MaxClock == 2      \* largest clock reading
MaxReqs == 2       \* POST /claude/message requests accepted
MaxThreads == 2    \* request goroutines running handleClaudeMessage at a time

Threads == 1..MaxThreads
Times == 1..MaxClock

\* session and conversation ids: 0 stands for the empty string; a generated id is
\* its prefix followed by the clock reading and is modelled by that reading; a
\* client may send any id
SessionIDs == 1..MaxClock
ConversationIDs == {1}
Models == {"", "claude-3-opus"}
ContextKeys == {"k"}
\* ClaudeResponse.Status as decoded from the backend's reply: a session status, or
\* "" when the reply carries no status field
ReplyStatuses == {"active", ""}

\* generateSessionID, generateConversationID at clock reading t
generateSessionID(t) == t
generateConversationID(t) == t

\* variant of defaultModel that falls back to claude-3-opus
defaultModelOpus(model) == IF model = "" THEN "claude-3-opus" ELSE model

\* getOrCreateSession: `if model == "" { model = "claude-3-sonnet" }`
defaultModel(model) == IF model = "" THEN "claude-3-sonnet" ELSE model

\* the ClaudeSession literal of getOrCreateSession; Context is the set of its keys
ClaudeSession(id, conv, model, created, last) ==
    [ID |-> id, ConversationID |-> conv, Model |-> model, Tools |-> <<>>, Context |-> {},
     CreatedAt |-> created, LastActivity |-> last, Status |-> "active"]

\* a request goroutine outside handleClaudeMessage.  SessionID, ConversationID,
\* Model and Context are the decoded ClaudeRequest, session the pointer
\* getOrCreateSession returned, reused whether it was found in the registry,
\* stamp the value time.Now() returned, Status the backend reply's status
IdleThread == [pc |-> "idle", SessionID |-> 0, ConversationID |-> 0, Model |-> "",
               Context |-> {}, session |-> 0, reused |-> FALSE, stamp |-> 0, Status |-> ""]

MaxOps == 2        \* GET and DELETE session requests answered
MaxPasses == 1     \* CleanupSessions passes
IdleThreshold == 1 \* the maxAge performCleanup passes (30 minutes), in clock ticks

\* no CleanupSessions pass is running.  cur is the id whose `if` condition the
\* pass has found true and whose delete is next, evicted the ids the last pass
\* deleted
NoPass == [pc |-> "idle", cutoff |-> 0, todo |-> {}, cur |-> 0, evicted |-> {}, passes |-> 0]

\* `cutoff := time.Now().Add(-maxAge)` at clock reading t
Cutoff(t, maxAge) == t - maxAge

\* `session.LastActivity.Before(cutoff)`
Expired(last, cutoff) == last < cutoff

\* the response of a session endpoint: writeError's status and code, 204 with no
\* body (code ""), or 200 with the encoded session (code "")
Reply(op, id, status, code) == [op |-> op, id |-> id, status |-> status, code |-> code]

\* variant of deleteSessionReply that reports an unknown id
deleteSessionReplyStrict(id) ==
    IF id = 0 THEN Reply("delete", id, 400, "MISSING_SESSION_ID")
    ELSE IF sessions[id] = 0 THEN Reply("delete", id, 404, "SESSION_NOT_FOUND")
    ELSE Reply("delete", id, 204, "")

\* what handleDeleteSession writes: MISSING_SESSION_ID for an empty id, else
\* `w.WriteHeader(http.StatusNoContent)`
deleteSessionReply(id) ==
    IF id = 0 THEN Reply("delete", id, 400, "MISSING_SESSION_ID")
    ELSE Reply("delete", id, 204, "")

\* what handleGetSession writes
getSessionReply(id) ==
    IF id = 0 THEN Reply("get", id, 400, "MISSING_SESSION_ID")
    ELSE IF sessions[id] = 0 THEN Reply("get", id, 404, "SESSION_NOT_FOUND")
    ELSE Reply("get", id, 200, "")

\* NewClaudeMiddleware: an empty registry
SessInit ==
    /\ now = 1
    /\ sessions = [id \in SessionIDs |-> 0]
    /\ heap = <<>>
    /\ thr = [t \in Threads |-> IdleThread]
    /\ nReqs = 0
    /\ gc = NoPass
    /\ replies = <<>>

\* ------------------------------------------------------ forward with retry
MaxRetries == 2    \* largest ClaudeConfig.MaxRetries

\* what one call of the backend gives: 0 is a transport error (client.Do returns
\* err), otherwise the reply's status
BackendOutcomes == {0, 200, 404, 502}

Scripts == [1..(MaxRetries + 1) -> BackendOutcomes]

\* `err == nil && resp.StatusCode < 500`
Settled(out) == out # 0 /\ out < 500

\* variant of retryLoop whose last iteration is i = retries - 1
RECURSIVE retryLoopShort(_, _, _, _)
retryLoopShort(sc, retries, i, outs) ==
    IF i >= retries /\ i > 0 THEN outs
    ELSE LET out == sc[i + 1]
         IN IF Settled(out) THEN Append(outs, out)
            ELSE retryLoopShort(sc, retries, i + 1, Append(outs, out))

\* `for i := 0; i <= MaxRetries; i++ { resp, err = client.Do(req); if settled
\* break; sleep }` from iteration i on: the outcomes of the calls made
RECURSIVE retryLoop(_, _, _, _)
retryLoop(sc, retries, i, outs) ==
    IF i > retries THEN outs
    ELSE LET out == sc[i + 1]
         IN IF Settled(out) THEN Append(outs, out)
            ELSE retryLoop(sc, retries, i + 1, Append(outs, out))

\* variant of forwardToClaudeCode that takes every settled reply for a success
forwardToClaudeCodeLenient(sc, retries, dec) ==
    LET outs == retryLoop(sc, retries, 0, <<>>)
        last == outs[Len(outs)]
    IN [calls |-> outs,
        err |-> IF last = 0 THEN "failed to send request"
                ELSE IF last >= 500 THEN "Claude Code returned status"
                ELSE IF ~dec THEN "failed to decode response"
                ELSE ""]

\* forwardToClaudeCode after the request is prepared: run the loop, then an error
\* for a transport error, for a status other than 200 and for a body that does
\* not decode; otherwise the reply
forwardToClaudeCode(sc, retries, dec) ==
    LET outs == retryLoop(sc, retries, 0, <<>>)
        last == outs[Len(outs)]
    IN [calls |-> outs,
        err |-> IF last = 0 THEN "failed to send request"
                ELSE IF last # 200 THEN "Claude Code returned status"
                ELSE IF ~dec THEN "failed to decode response"
                ELSE ""]

NoForward == [state |-> "pending", calls |-> <<>>, err |-> "", resp |-> NoRequest]

\* no forward is under examination
FwdIdle ==
    /\ script = [k \in 1..(MaxRetries + 1) |-> 200]
    /\ maxRetries = MaxRetries
    /\ decodable = TRUE
    /\ fwd = NoForward

\* the goroutines that may call into the AuthMiddleware, and the keys they use
KeyGoroutines == 1..MaxThreads
KeyNames == {"k1", "k2"}

NoAccess == [op |-> "none", key |-> ""]

\* no goroutine is inside an access to the API-key map
KeyIdle ==
    /\ keyAcc = [g \in KeyGoroutines |-> NoAccess]
    /\ keyFault = FALSE

\* ------------------------------------------------------------------- Init
\* NewSyncMiddleware: empty registry, empty channels, no task started
HubInit ==
    /\ clients = {}
    /\ client = [c \in Conns |-> NoClient]
    /\ Send = [c \in Conns |-> <<>>]
    /\ closed = [c \in Conns |-> FALSE]
    /\ rpc = [c \in Conns |-> "none"]
    /\ wpc = [c \in Conns |-> "none"]
    /\ broadcast = <<>>
    /\ hub = [pc |-> "select", arg |-> 0]
    /\ hbPc = "select"
    /\ clPc = "select"
    /\ cancelled = FALSE
    /\ panic = "none"
    /\ nMsgs = 0
    /\ nPings = 0
    /\ nBeats = 0
    /\ nEnq = [c \in Conns |-> 0]
    /\ written = [c \in Conns |-> <<>>]
    /\ sseNull = [c \in Conns |-> FALSE]
    /\ seen = [c \in Conns |-> 0]
    /\ unregSent = [c \in Conns |-> 0]
    /\ removed = [c \in Conns |-> 0]
    /\ lastSub = [c \in Conns |-> ""]

\* the hub of a server created with the default configuration
Init ==
    HubInit /\ CreateEnhancedServer(CreateDefaultConfig) /\ FuncIdle /\ SessInit /\ FwdIdle /\ KeyIdle

\* --------------------------------------------------- connection acceptance
\* handleWebSocket up to `s.register <- client`: the handler blocks in the send.
\* UserID and AgentID are copied from the RequestContext (u, a)
handleWebSocket(c, u, a) ==
    /\ Alive
    /\ FreshID(c)
    /\ client' = [client EXCEPT ![c] = [kind |-> "ws", UserID |-> u, AgentID |-> a]]
    /\ rpc' = [rpc EXCEPT ![c] = "accept"]
    /\ UNCHANGED <<clients, Send, closed, wpc, broadcast, hub, hbPc, clPc, cancelled,
                   panic, nMsgs, nPings, nBeats, nEnq, written, sseNull, seen, unregSent, removed>>
    /\ UNCHANGED lastSub
    /\ UNCHANGED nonHubVars

\* handleSSE up to the event loop: the handler inserts its client itself, under s.mu
handleSSE(c) ==
    /\ Alive
    /\ FreshID(c)
    /\ client' = [client EXCEPT ![c] = [kind |-> "sse", UserID |-> "", AgentID |-> ""]]
    /\ clients' = clients \cup {c}
    /\ wpc' = [wpc EXCEPT ![c] = "sse"]
    /\ UNCHANGED <<Send, closed, rpc, broadcast, hub, hbPc, clPc, cancelled,
                   panic, nMsgs, nPings, nBeats, nEnq, written, sseNull, seen, unregSent, removed>>
    /\ UNCHANGED lastSub
    /\ UNCHANGED nonHubVars

\* ---------------------------------------------------------- hub supervisor
\* the welcome envelope registerClient builds
Welcome(c) == SyncMessage("welcome", "", "", c)

\* runHub `case client := <-s.register`: rendezvous with the blocked handleWebSocket,
\* which goes on to start handleClientWrite and handleClientRead
HubRecvRegister(c) ==
    /\ Alive
    /\ hub.pc = "select"
    /\ rpc[c] = "accept"
    /\ hub' = [pc |-> "register", arg |-> c]
    /\ rpc' = [rpc EXCEPT ![c] = "read"]
    /\ wpc' = [wpc EXCEPT ![c] = "run"]
    /\ UNCHANGED <<clients, client, Send, closed, broadcast, hbPc, clPc, cancelled,
                   panic, nMsgs, nPings, nBeats, nEnq, written, sseNull, seen, unregSent, removed>>
    /\ UNCHANGED lastSub
    /\ UNCHANGED nonHubVars

\* registerClient: insert, then non-blocking send of the welcome; on a full queue
\* close it and delete the client again
registerClient ==
    /\ Alive
    /\ hub.pc = "register"
    /\ LET c == hub.arg
           r == TrySend(c)
       IN /\ clients' = IF r = "full" THEN clients \ {c} ELSE clients \cup {c}
          /\ Send' = IF r = "sent" THEN [Send EXCEPT ![c] = Enqueue(c, Welcome(c))] ELSE Send
          /\ nEnq' = IF r = "sent" THEN [nEnq EXCEPT ![c] = @ + 1] ELSE nEnq
          /\ closed' = IF r = "full" THEN [closed EXCEPT ![c] = TRUE] ELSE closed
          /\ removed' = IF r = "full" THEN [removed EXCEPT ![c] = @ + 1] ELSE removed
          /\ panic' = IF r = "panic" THEN "send on closed channel" ELSE panic
    /\ hub' = [pc |-> "select", arg |-> 0]
    /\ UNCHANGED <<client, rpc, wpc, broadcast, hbPc, clPc, cancelled,
                   nMsgs, nPings, nBeats, written, sseNull, seen, unregSent>>
    /\ UNCHANGED lastSub
    /\ UNCHANGED nonHubVars

\* runHub `case client := <-s.unregister` and unregisterClient: rendezvous with the
\* reader blocked in its deferred send; delete and close only if still registered
unregisterClient(c) ==
    /\ Alive
    /\ hub.pc = "select"
    /\ rpc[c] = "unregister"
    /\ rpc' = [rpc EXCEPT ![c] = "done"]
    /\ IF c \in clients
       THEN /\ clients' = clients \ {c}
            /\ removed' = [removed EXCEPT ![c] = @ + 1]
            /\ closed' = [closed EXCEPT ![c] = TRUE]
            /\ panic' = IF closed[c] THEN "close of closed channel" ELSE panic
       ELSE UNCHANGED <<clients, removed, closed, panic>>
    /\ UNCHANGED <<client, Send, wpc, broadcast, hub, hbPc, clPc, cancelled,
                   nMsgs, nPings, nBeats, nEnq, written, sseNull, seen, unregSent>>
    /\ UNCHANGED lastSub
    /\ UNCHANGED nonHubVars

\* variant of OfferKeeps in which the default branch leaves the client registered
OfferKeepsAlways(c) == TRUE

\* broadcastMessage, one iteration of the range loop for a selected client:
\* whether the client stays in the registry
OfferKeeps(c) == TrySend(c) # "full"

\* registered clients the filter selects for m
Selected(m) == {c \in clients : shouldReceiveMessage(c, m)}

\* selected clients whose Send is already closed: the send panics there
ClosedSelected(m) == {c \in Selected(m) : TrySend(c) = "panic"}

Untargeted(m) == m.UserID = "" /\ m.AgentID = ""

Min(a, b) == IF a < b THEN a ELSE b

\* runHub `case message := <-s.broadcast` and broadcastMessage.  Map iteration order
\* is unspecified: when some selected client's Send is closed the loop panics there,
\* having served any subset P of the other selected clients
broadcastMessage ==
    /\ Alive
    /\ hub.pc = "select"
    /\ broadcast # <<>>
    /\ LET m == Head(broadcast)
       IN \E P \in SUBSET (Selected(m) \ ClosedSelected(m)) :
            /\ ClosedSelected(m) = {} => P = Selected(m)
            /\ Send' = [c \in Conns |-> IF c \in P /\ TrySend(c) = "sent"
                                          THEN Enqueue(c, m) ELSE Send[c]]
            /\ nEnq' = [c \in Conns |-> IF c \in P /\ TrySend(c) = "sent"
                                          THEN nEnq[c] + 1 ELSE nEnq[c]]
            /\ closed' = [c \in Conns |-> IF c \in P /\ TrySend(c) = "full"
                                            THEN TRUE ELSE closed[c]]
            /\ clients' = {c \in clients : c \in P => OfferKeeps(c)}
            /\ removed' = [c \in Conns |-> IF c \in clients /\ c \notin clients'
                                             THEN removed[c] + 1 ELSE removed[c]]
            /\ panic' = IF ClosedSelected(m) # {} THEN "send on closed channel" ELSE panic
            /\ seen' = [c \in Conns |->
                          IF ClosedSelected(m) = {} /\ Untargeted(m) /\ c \in clients
                             /\ NeverDrained(c)
                          THEN Min(seen[c] + 1, BufferSize + 1) ELSE seen[c]]
    /\ broadcast' = Tail(broadcast)
    /\ UNCHANGED <<client, rpc, wpc, hub, hbPc, clPc, cancelled,
                   nMsgs, nPings, nBeats, written, sseNull, unregSent>>
    /\ UNCHANGED lastSub
    /\ UNCHANGED nonHubVars

\* runHub `case <-ctx.Done()`: the supervisor returns
HubExit ==
    /\ Alive
    /\ hub.pc = "select"
    /\ cancelled
    /\ hub' = [pc |-> "done", arg |-> 0]
    /\ UNCHANGED <<clients, client, Send, closed, rpc, wpc, broadcast, hbPc, clPc,
                   cancelled, panic, nMsgs, nPings, nBeats, nEnq, written, sseNull, seen,
                   unregSent, removed>>
    /\ UNCHANGED lastSub
    /\ UNCHANGED nonHubVars

\* ----------------------------------------------------- heartbeat, cleanup
\* runHeartbeat `case <-ticker.C`: sendHeartbeat starts its blocking send
HbTick ==
    /\ Alive
    /\ hbPc = "select"
    /\ nBeats < MaxBeats
    /\ hbPc' = "send"
    /\ nBeats' = nBeats + 1
    /\ UNCHANGED <<clients, client, Send, closed, rpc, wpc, broadcast, hub, clPc,
                   cancelled, panic, nMsgs, nPings, nEnq, written, sseNull, seen,
                   unregSent, removed>>
    /\ UNCHANGED lastSub
    /\ UNCHANGED nonHubVars

\* sendHeartbeat `s.broadcast <- heartbeat` completes once the channel has room
sendHeartbeat ==
    /\ Alive
    /\ hbPc = "send"
    /\ Len(broadcast) < BufferSize
    /\ broadcast' = Append(broadcast, SyncMessage("heartbeat", "", "", 0))
    /\ hbPc' = "select"
    /\ UNCHANGED <<clients, client, Send, closed, rpc, wpc, hub, clPc,
                   cancelled, panic, nMsgs, nPings, nBeats, nEnq, written, sseNull, seen,
                   unregSent, removed>>
    /\ UNCHANGED lastSub
    /\ UNCHANGED nonHubVars

\* runHeartbeat `case <-ctx.Done()`
HbExit ==
    /\ Alive
    /\ hbPc = "select"
    /\ cancelled
    /\ hbPc' = "done"
    /\ UNCHANGED <<clients, client, Send, closed, rpc, wpc, broadcast, hub, clPc,
                   cancelled, panic, nMsgs, nPings, nBeats, nEnq, written, sseNull, seen,
                   unregSent, removed>>
    /\ UNCHANGED lastSub
    /\ UNCHANGED nonHubVars

\* Manager.runCleanup `case <-ticker.C`: performCleanup starts
ClTick ==
    /\ Alive
    /\ clPc = "select"
    /\ clPc' = "cleanup"
    /\ UNCHANGED <<clients, client, Send, closed, rpc, wpc, broadcast, hub, hbPc,
                   cancelled, panic, nMsgs, nPings, nBeats, nEnq, written, sseNull, seen,
                   unregSent, removed>>
    /\ UNCHANGED lastSub
    /\ UNCHANGED nonHubVars

\* performCleanup returns (CleanupSessions and logStatistics take only short locks)
performCleanup ==
    /\ Alive
    /\ clPc = "cleanup"
    /\ clPc' = "select"
    /\ UNCHANGED <<clients, client, Send, closed, rpc, wpc, broadcast, hub, hbPc,
                   cancelled, panic, nMsgs, nPings, nBeats, nEnq, written, sseNull, seen,
                   unregSent, removed>>
    /\ UNCHANGED lastSub
    /\ UNCHANGED nonHubVars

\* Manager.runCleanup `case <-ctx.Done()`
ClExit ==
    /\ Alive
    /\ clPc = "select"
    /\ cancelled
    /\ clPc' = "done"
    /\ UNCHANGED <<clients, client, Send, closed, rpc, wpc, broadcast, hub, hbPc,
                   cancelled, panic, nMsgs, nPings, nBeats, nEnq, written, sseNull, seen,
                   unregSent, removed>>
    /\ UNCHANGED lastSub
    /\ UNCHANGED nonHubVars

\* the root context given to Manager.Start is cancelled
Cancel ==
    /\ Alive
    /\ ~cancelled
    /\ cancelled' = TRUE
    /\ UNCHANGED <<clients, client, Send, closed, rpc, wpc, broadcast, hub, hbPc, clPc,
                   panic, nMsgs, nPings, nBeats, nEnq, written, sseNull, seen, unregSent, removed>>
    /\ UNCHANGED lastSub
    /\ UNCHANGED nonHubVars

\* ------------------------------------------------------ duplex reader task
\* handleClientRead reads a "ping": handleClientMessage answers with a non-blocking
\* send of a pong; on a full queue it closes client.Send (the client stays registered)
ReadPing(c) ==
    /\ Alive
    /\ rpc[c] = "read"
    /\ nPings < MaxPings
    /\ nPings' = nPings + 1
    /\ LET r == TrySend(c)
       IN /\ Send' = IF r = "sent"
                     THEN [Send EXCEPT ![c] = Enqueue(c, SyncMessage("pong", "", "", c))]
                     ELSE Send
          /\ nEnq' = IF r = "sent" THEN [nEnq EXCEPT ![c] = @ + 1] ELSE nEnq
          /\ closed' = IF r = "full" THEN [closed EXCEPT ![c] = TRUE] ELSE closed
          /\ panic' = IF r = "panic" THEN "send on closed channel" ELSE panic
    /\ UNCHANGED <<clients, client, rpc, wpc, broadcast, hub, hbPc, clPc, cancelled,
                   nMsgs, nBeats, written, sseNull, seen, unregSent, removed>>
    /\ UNCHANGED lastSub
    /\ UNCHANGED nonHubVars

\* variant of subscribedAgent that keeps the first subscription
subscribedAgentFirst(old, a) == IF old = "" THEN a ELSE old

\* handleSubscription: `client.AgentID = agentIDStr`
subscribedAgent(old, a) == a

\* handleClientRead reads a "subscribe" carrying agent_id a: handleSubscription
\* overwrites client.AgentID
handleSubscription(c, a) ==
    /\ Alive
    /\ rpc[c] = "read"
    /\ client[c].AgentID # a
    /\ client' = [client EXCEPT ![c].AgentID = subscribedAgent(client[c].AgentID, a)]
    /\ lastSub' = [lastSub EXCEPT ![c] = a]
    /\ UNCHANGED <<clients, Send, closed, rpc, wpc, broadcast, hub, hbPc, clPc, cancelled,
                   panic, nMsgs, nPings, nBeats, nEnq, written, sseNull, seen, unregSent, removed>>
    /\ UNCHANGED nonHubVars

\* handleClientRead reads any other message: handleClientMessage tags it with the
\* sender's UserID and sends it on s.broadcast (blocking; taken when there is room)
ReadOther(c, a) ==
    /\ Alive
    /\ rpc[c] = "read"
    /\ nMsgs < MaxMsgs
    /\ Len(broadcast) < BufferSize
    /\ nMsgs' = nMsgs + 1
    /\ broadcast' = Append(broadcast, SyncMessage("custom", client[c].UserID, a, 0))
    /\ UNCHANGED <<clients, client, Send, closed, rpc, wpc, hub, hbPc, clPc, cancelled,
                   panic, nPings, nBeats, nEnq, written, sseNull, seen, unregSent, removed>>
    /\ UNCHANGED lastSub
    /\ UNCHANGED nonHubVars

\* ReadJSON fails (peer close, read deadline, connection closed by the writer):
\* the loop breaks and the deferred `s.unregister <- client` starts
ReadError(c) ==
    /\ Alive
    /\ rpc[c] = "read"
    /\ rpc' = [rpc EXCEPT ![c] = "unregister"]
    /\ unregSent' = [unregSent EXCEPT ![c] = @ + 1]
    /\ UNCHANGED <<clients, client, Send, closed, wpc, broadcast, hub, hbPc, clPc,
                   cancelled, panic, nMsgs, nPings, nBeats, nEnq, written, sseNull, seen, removed>>
    /\ UNCHANGED lastSub
    /\ UNCHANGED nonHubVars

\* ------------------------------------------------------ duplex writer task
\* handleClientWrite receives the next envelope and WriteJSON succeeds
WriteOk(c) ==
    /\ Alive
    /\ wpc[c] = "run"
    /\ Send[c] # <<>>
    /\ Send' = [Send EXCEPT ![c] = Dequeue(Send[c]).rest]
    /\ written' = [written EXCEPT ![c] = Append(@, Dequeue(Send[c]).elem.seq)]
    /\ UNCHANGED <<clients, client, closed, rpc, wpc, broadcast, hub, hbPc, clPc,
                   cancelled, panic, nMsgs, nPings, nBeats, nEnq, sseNull, seen, unregSent, removed>>
    /\ UNCHANGED lastSub
    /\ UNCHANGED nonHubVars

\* variant of WriteFail in which the failing writer, too, sends its client to s.unregister
WriteFailUnregisters(c) ==
    /\ Alive
    /\ wpc[c] = "run"
    /\ Send[c] # <<>>
    /\ Send' = [Send EXCEPT ![c] = Dequeue(Send[c]).rest]
    /\ wpc' = [wpc EXCEPT ![c] = "failed"]
    /\ unregSent' = [unregSent EXCEPT ![c] = @ + 1]
    /\ UNCHANGED <<clients, client, closed, rpc, broadcast, hub, hbPc, clPc, cancelled,
                   panic, nMsgs, nPings, nBeats, nEnq, written, sseNull, seen, removed>>
    /\ UNCHANGED lastSub
    /\ UNCHANGED nonHubVars

\* handleClientWrite receives the next envelope and WriteJSON fails: the writer
\* returns and closes the socket; it sends nothing to s.unregister
WriteFail(c) ==
    /\ Alive
    /\ wpc[c] = "run"
    /\ Send[c] # <<>>
    /\ Send' = [Send EXCEPT ![c] = Dequeue(Send[c]).rest]
    /\ wpc' = [wpc EXCEPT ![c] = "failed"]
    /\ UNCHANGED <<clients, client, closed, rpc, broadcast, hub, hbPc, clPc, cancelled,
                   panic, nMsgs, nPings, nBeats, nEnq, written, sseNull, seen, unregSent, removed>>
    /\ UNCHANGED lastSub
    /\ UNCHANGED nonHubVars

\* handleClientWrite receives from the closed, drained channel (ok = false):
\* it writes a close frame and returns
WriteClosed(c) ==
    /\ Alive
    /\ wpc[c] = "run"
    /\ Send[c] = <<>>
    /\ closed[c]
    /\ wpc' = [wpc EXCEPT ![c] = "done"]
    /\ UNCHANGED <<clients, client, Send, closed, rpc, broadcast, hub, hbPc, clPc,
                   cancelled, panic, nMsgs, nPings, nBeats, nEnq, written, sseNull, seen,
                   unregSent, removed>>
    /\ UNCHANGED lastSub
    /\ UNCHANGED nonHubVars

\* ---------------------------------------------------------- event stream
\* handleSSE loop `case message := <-eventChan` with an envelope buffered
SSEWrite(c) ==
    /\ Alive
    /\ wpc[c] = "sse"
    /\ Send[c] # <<>>
    /\ Send' = [Send EXCEPT ![c] = Dequeue(Send[c]).rest]
    /\ written' = [written EXCEPT ![c] = Append(@, Dequeue(Send[c]).elem.seq)]
    /\ UNCHANGED <<clients, client, closed, rpc, wpc, broadcast, hub, hbPc, clPc,
                   cancelled, panic, nMsgs, nPings, nBeats, nEnq, sseNull, seen, unregSent, removed>>
    /\ UNCHANGED lastSub
    /\ UNCHANGED nonHubVars

\* handleSSE loop receiving from the closed, drained eventChan: the receive yields
\* nil at once and the loop writes "data: null"
SSENull(c) ==
    /\ Alive
    /\ wpc[c] = "sse"
    /\ Send[c] = <<>>
    /\ closed[c]
    /\ ~sseNull[c]
    /\ sseNull' = [sseNull EXCEPT ![c] = TRUE]
    /\ UNCHANGED <<clients, client, Send, closed, rpc, wpc, broadcast, hub, hbPc, clPc,
                   cancelled, panic, nMsgs, nPings, nBeats, nEnq, written, seen, unregSent, removed>>
    /\ UNCHANGED lastSub
    /\ UNCHANGED nonHubVars

\* handleSSE `case <-r.Context().Done()` and the deferred cleanup: delete the
\* client and close eventChan, under s.mu
SSEDisconnect(c) ==
    /\ Alive
    /\ wpc[c] = "sse"
    /\ wpc' = [wpc EXCEPT ![c] = "done"]
    /\ clients' = clients \ {c}
    /\ removed' = IF c \in clients THEN [removed EXCEPT ![c] = @ + 1] ELSE removed
    /\ closed' = [closed EXCEPT ![c] = TRUE]
    /\ panic' = IF closed[c] THEN "close of closed channel" ELSE panic
    /\ UNCHANGED <<client, Send, rpc, broadcast, hub, hbPc, clPc, cancelled,
                   nMsgs, nPings, nBeats, nEnq, written, sseNull, seen, unregSent>>
    /\ UNCHANGED lastSub
    /\ UNCHANGED nonHubVars

\* ------------------------------------------------------ public broadcast API
\* the blocking `s.broadcast <- syncMessage` of the three Broadcast* methods,
\* taken when the channel has room
Push(m) ==
    /\ Alive
    /\ nMsgs < MaxMsgs
    /\ Len(broadcast) < BufferSize
    /\ nMsgs' = nMsgs + 1
    /\ broadcast' = Append(broadcast, m)
    /\ UNCHANGED <<clients, client, Send, closed, rpc, wpc, hub, hbPc, clPc, cancelled,
                   panic, nPings, nBeats, nEnq, written, sseNull, seen, unregSent, removed>>
    /\ UNCHANGED lastSub
    /\ UNCHANGED nonHubVars

BroadcastAgentStatus(agentID) == Push(SyncMessage("agent_status", "", agentID, 0))

BroadcastMessageUpdate(agentID) == Push(SyncMessage("message_update", "", agentID, MessageID))

BroadcastError == Push(SyncMessage("error", "", "", 0))

\* ------------------------------------------------------------------- Next
\* connection tasks: accept, reader, writer, event-stream loop
ConnNext ==
    \/ \E c \in Conns, u \in Users : handleWebSocket(c, u, "")
    \/ \E c \in Conns : handleSSE(c)
    \/ \E c \in Conns : ReadPing(c)
    \/ \E c \in Conns, a \in Agents : handleSubscription(c, a)
    \/ \E c \in Conns, a \in Agents : ReadOther(c, a)
    \/ \E c \in Conns : ReadError(c)
    \/ \E c \in Conns : WriteOk(c)
    \/ \E c \in Conns : WriteFail(c)
    \/ \E c \in Conns : WriteClosed(c)
    \/ \E c \in Conns : SSEWrite(c)
    \/ \E c \in Conns : SSEDisconnect(c)

\* the supervisor's select while the context is live
HubNext ==
    \/ \E c \in Conns : HubRecvRegister(c)
    \/ registerClient
    \/ \E c \in Conns : unregisterClient(c)
    \/ broadcastMessage

\* the hub with its connections and the HTTP handlers that broadcast
Next ==
    \/ ConnNext
    \/ HubNext
    \/ \E a \in SubjectIDs : BroadcastMessageUpdate(a)
    \/ BroadcastError

Spec == Init /\ [][Next]_vars

\* ------------------------------------------------ subscription specification
\* the agents connections subscribe to in turn
Subjects == {"a1", "a2"}

\* duplex connections that subscribe and re-subscribe while messages are posted
\* to the agents
SubNext ==
    \/ \E c \in Conns, u \in Users : handleWebSocket(c, u, "")
    \/ HubNext
    \/ \E c \in Conns, a \in Subjects : handleSubscription(c, a)
    \/ \E c \in Conns : ReadError(c)
    \/ \E c \in Conns : WriteOk(c)
    \/ \E a \in Subjects : BroadcastMessageUpdate(a)

SubSpec == Init /\ [][SubNext]_vars

\* ------------------------------------------------- lifecycle specification
\* Manager.Start's goroutines (runHub, runHeartbeat, runCleanup) and the
\* connections' tasks around the cancellation of the root context
LifeNext ==
    \/ \E c \in Conns, u \in Users : handleWebSocket(c, u, "")
    \/ \E c \in Conns : handleSSE(c)
    \/ HubNext
    \/ HubExit
    \/ HbTick
    \/ sendHeartbeat
    \/ HbExit
    \/ ClTick
    \/ performCleanup
    \/ ClExit
    \/ Cancel
    \/ \E c \in Conns : ReadError(c)
    \/ \E c \in Conns : WriteOk(c)
    \/ \E c \in Conns : WriteClosed(c)
    \/ \E c \in Conns : SSEWrite(c)
    \/ \E c \in Conns : SSENull(c)
    \/ \E c \in Conns : SSEDisconnect(c)
    \/ BroadcastError

\* Scheduling: every goroutine that can take a step eventually takes one (WF);
\* a select with several ready cases picks one at random, so the ctx.Done()
\* case is eventually picked if it is ready again and again (SF).  The peer
\* side is given the benefit of the doubt: a read eventually fails (the 60 s
\* read deadline) and an event-stream peer eventually disconnects.
LifeFairness ==
    /\ WF_vars(HubNext)
    /\ SF_vars(HubExit)
    /\ WF_vars(sendHeartbeat)
    /\ SF_vars(HbExit)
    /\ WF_vars(performCleanup)
    /\ SF_vars(ClExit)
    /\ \A c \in Conns : WF_vars(ReadError(c))
    /\ \A c \in Conns : WF_vars(WriteOk(c))
    /\ \A c \in Conns : WF_vars(WriteClosed(c))
    /\ \A c \in Conns : WF_vars(SSEWrite(c))
    /\ \A c \in Conns : WF_vars(SSEDisconnect(c))

FairSpec == Init /\ [][LifeNext]_vars /\ LifeFairness

\* ------------------------------------------------------ request handling
\* the layers' configuration in force when the request in the chain entered it
EntryConfig == IF req.stale THEN req.snap ELSE MiddlewareConfig(enabled, authType)

\* a request enters the router's middleware stack
NewRequest(cred, path, big) ==
    /\ req.state \in {"idle", "done"}
    /\ req' = [NoRequest EXCEPT !.state = "running", !.pos = 1, !.cred = cred, !.path = path,
                                !.oversize = big]
    /\ UNCHANGED <<config, enabled, authType, chain, router, apiKeys, nUpdates>>
    /\ UNCHANGED nonChainVars

\* the request stands before layer l of the router's stack
At(l) == req.state = "running" /\ req.pos <= Len(router) /\ router[req.pos] = l

\* next.ServeHTTP from a disabled layer: the layer does nothing
Pass(r) == [r EXCEPT !.pos = @ + 1]

\* next.ServeHTTP from an enabled layer that has done its work
Ran(r, l) == [r EXCEPT !.pos = @ + 1, !.ran = Append(@, l)]

\* http.ResponseWriter.WriteHeader: the first call fixes the status line, later
\* calls are ignored
WriteHeader(r, st) == IF r.status = 0 THEN [r EXCEPT !.status = st] ELSE r

\* a StandardResponse body with the given error code ("" for success) and
\* request_id is written after WriteHeader(st)
writeEnvelope(r, st, code, id) ==
    [WriteHeader(r, st) EXCEPT !.envelopes = @ + 1, !.code = code, !.envID = id]

\* the layers' "get or create request context": an existing RequestContext is
\* kept, otherwise one is created whose RequestID is the layer's generateRequestID
\* (the layer's prefix followed by the clock reading; ids are modelled by the prefix)
SetRequestContext(r, id) == IF r.ctxID = "" THEN [r EXCEPT !.ctxID = id] ELSE r

\* the request_id the error and response layers' writers put in an envelope: that
\* of the RequestContext of the request they are handed, else a generated one
EnvelopeID(ctx, id) == IF ctx # "" THEN ctx ELSE id

\* ErrorMiddleware.Handler: wrap the writer, defer the recovery, call next
ErrorHandler ==
    /\ At("errors")
    /\ req' = IF enabled["errors"] THEN Ran(req, "errors") ELSE Pass(req)
    /\ UNCHANGED <<config, enabled, authType, chain, router, apiKeys, nUpdates>>
    /\ UNCHANGED nonChainVars

\* ResponseMiddleware.Handler: set the standard headers, wrap the writer, call next
ResponseHandler ==
    /\ At("response")
    /\ req' = IF enabled["response"]
              THEN Ran([req EXCEPT !.hdrID = req.ctxID], "response")
              ELSE Pass(req)
    /\ UNCHANGED <<config, enabled, authType, chain, router, apiKeys, nUpdates>>
    /\ UNCHANGED nonChainVars

\* extractToken: the token, or "" for an error
extractToken(t, cred) ==
    IF t = "bearer" THEN (IF cred \in {"jwt_valid", "jwt_invalid"} THEN cred ELSE "")
    ELSE IF t = "api_key" THEN (IF cred = "api_key" THEN "k1" ELSE "")
    ELSE ""

\* validateToken: the user id, or "" for an error
validateToken(t, token) ==
    IF t = "bearer" THEN (IF token = "jwt_valid" THEN "u1" ELSE "")
    ELSE IF t = "api_key" THEN (IF token \in apiKeys THEN "u1" ELSE "")
    ELSE ""

\* variant of writeUnauthorized that answers 403 FORBIDDEN
writeForbidden(r) == writeEnvelope(r, 403, "FORBIDDEN", "auth")

\* writeUnauthorized: status 401 and an error body with code UNAUTHORIZED and a
\* request_id generated for this body
writeUnauthorized(r) == writeEnvelope(r, 401, "UNAUTHORIZED", "auth")

\* AuthMiddleware.Handler: pass if disabled; on an extraction or validation
\* error write the 401 and return; otherwise call next
AuthHandler ==
    /\ At("auth")
    /\ LET token == extractToken(authType, req.cred)
           userID == IF token = "" THEN "" ELSE validateToken(authType, token)
       IN req' = IF ~enabled["auth"] THEN Pass(req)
                 ELSE IF userID = ""
                      THEN [writeUnauthorized(req) EXCEPT !.state = "done", !.authFailed = TRUE,
                                                          !.ran = Append(@, "auth")]
                      ELSE Ran(SetRequestContext(req, "auth"), "auth")
    /\ UNCHANGED <<config, enabled, authType, chain, router, apiKeys, nUpdates>>
    /\ UNCHANGED nonChainVars

\* validateRequestSize: `MaxRequestSize > 0 && r.ContentLength > MaxRequestSize`
\* is an error
validateRequestSize(r) == ~r.oversize

\* ValidationMiddleware.Handler: pass if disabled; a request that fails the size
\* check or a later check (ok = FALSE) gets writeBadRequest and the handler
\* returns; otherwise call next
ValidationHandler(ok) ==
    /\ At("validation")
    /\ req' = IF ~enabled["validation"] THEN Pass(req)
              ELSE IF ~validateRequestSize(req) \/ ~ok
                   THEN [writeEnvelope(req, 400, "VALIDATION_ERROR", "req")
                            EXCEPT !.state = "done", !.ran = Append(@, "validation")]
                   ELSE Ran(SetRequestContext(req, "req"), "validation")
    /\ UNCHANGED <<config, enabled, authType, chain, router, apiKeys, nUpdates>>
    /\ UNCHANGED nonChainVars

\* SyncMiddleware.Handler: pass if disabled; a WebSocket or SSE request is taken
\* over by the hub's connection handler; otherwise call next
SyncHandler ==
    /\ At("sync")
    /\ req' = IF ~enabled["sync"] THEN Pass(req)
              ELSE IF req.path = "ws"
                   THEN [req EXCEPT !.state = "done", !.status = 101, !.ran = Append(@, "sync")]
                   ELSE Ran(SetRequestContext(req, "sync"), "sync")
    /\ UNCHANGED <<config, enabled, authType, chain, router, apiKeys, nUpdates>>
    /\ UNCHANGED nonChainVars

\* handleClaudeMessage: on success the ClaudeResponse is encoded as the body (the
\* first Write fixes status 200); on a failure writeError writes an envelope with
\* a request_id generated for it
handleClaudeMessage(r, st) ==
    IF st = 200 THEN [WriteHeader(r, 200) EXCEPT !.raw = TRUE]
    ELSE writeEnvelope(r, st, "CLAUDE_ERROR", "claude_req")

\* ClaudeMiddleware.Handler: pass if disabled; a Claude request is answered by
\* handleClaudeRequest; otherwise call next
ClaudeHandler(st) ==
    /\ At("claude")
    /\ req' = IF ~enabled["claude"] THEN Pass(req)
              ELSE IF req.path = "claude"
                   THEN [handleClaudeMessage(req, st)
                            EXCEPT !.state = "done", !.ran = Append(@, "claude")]
                   ELSE Ran(SetRequestContext(req, "claude_req"), "claude")
    /\ UNCHANGED <<config, enabled, authType, chain, router, apiKeys, nUpdates>>
    /\ UNCHANGED nonChainVars

\* what a route's handler may do: answer, panic before writing anything, or
\* panic after it has written its response
Outcomes == {"ok", "panic", "write_panic"}

\* ResponseMiddleware.WriteSuccessResponse, as handleHealth, handleLogin (with a
\* username and a password) and the other handlers call it: status 200 and a
\* success envelope
WriteSuccessResponse(r) == writeEnvelope(r, 200, "", EnvelopeID(r.ctxID, "resp"))

\* a panic unwinds to ErrorMiddleware.Handler's deferred recoverPanic if the
\* enabled error layer was passed: it writes a 500 envelope through the writer
\* and with the request it was given (which carries no RequestContext).  Without
\* it the panic leaves the chain
recoverPanic(r) ==
    IF \E i \in 1..Len(r.ran) : r.ran[i] = "errors"
    THEN [writeEnvelope(r, 500, "INTERNAL_SERVER_ERROR", EnvelopeID("", "err"))
             EXCEPT !.recovered = TRUE]
    ELSE [r EXCEPT !.escaped = TRUE]

\* the route's handler behind the stack answers the request
RouteHandler(out) ==
    /\ req.state = "running"
    /\ req.pos = Len(router) + 1
    /\ LET answered == IF out = "panic" THEN req ELSE WriteSuccessResponse(req)
           ended == IF out = "ok" THEN answered ELSE recoverPanic(answered)
       IN req' = [ended EXCEPT !.state = "done", !.handler = TRUE]
    /\ UNCHANGED <<config, enabled, authType, chain, router, apiKeys, nUpdates>>
    /\ UNCHANGED nonChainVars

\* Manager.UpdateConfig (reached from handleUpdateMiddlewareConfig, which does not
\* validate): store the config, Configure every layer, rebuild the chain.  The
\* router keeps the stack it was given at creation
UpdateConfig(cfg) ==
    /\ nUpdates < MaxUpdates
    /\ nUpdates' = nUpdates + 1
    /\ config' = cfg
    /\ enabled' = cfg.Enabled
    /\ authType' = cfg.Type
    /\ chain' = buildChain(cfg.Enabled)
    /\ req' = IF req.state = "running"
              THEN [req EXCEPT !.stale = TRUE,
                               !.snap = IF req.stale THEN @ ELSE MiddlewareConfig(enabled, authType)]
              ELSE req
    /\ UNCHANGED <<router, apiKeys>>
    /\ UNCHANGED nonChainVars

\* AuthMiddleware.AddAPIKey: register a generated key
AddAPIKey ==
    /\ apiKeys = {}
    /\ apiKeys' = {"k1"}
    /\ UNCHANGED <<config, enabled, authType, chain, router, req, nUpdates>>
    /\ UNCHANGED nonChainVars

\* AuthMiddleware.RemoveAPIKey
RemoveAPIKey ==
    /\ apiKeys # {}
    /\ apiKeys' = apiKeys \ {"k1"}
    /\ UNCHANGED <<config, enabled, authType, chain, router, req, nUpdates>>
    /\ UNCHANGED nonChainVars

\* the requests whose Content-Length may exceed the maximum: the Claude ones
Oversize(path) == IF path = "claude" THEN BOOLEAN ELSE {FALSE}

ChainNext ==
    \/ \E cred \in Credentials, path \in Paths : \E big \in Oversize(path) :
          NewRequest(cred, path, big)
    \/ ErrorHandler
    \/ ResponseHandler
    \/ AuthHandler
    \/ \E ok \in BOOLEAN : ValidationHandler(ok)
    \/ SyncHandler
    \/ \E st \in {200, 500} : ClaudeHandler(st)
    \/ \E out \in Outcomes : RouteHandler(out)
    \/ \E cfg \in Edits(config) : UpdateConfig(cfg)
    \/ AddAPIKey
    \/ RemoveAPIKey

\* a server created from a configuration that passes ValidateConfig
ChainInit ==
    /\ HubInit
    /\ \E cfg \in InitConfigs : ValidateConfig(cfg) /\ CreateEnhancedServer(cfg)
    /\ FuncIdle
    /\ SessInit
    /\ FwdIdle
    /\ KeyIdle

ChainSpec == ChainInit /\ [][ChainNext]_vars

\* ------------------------------------------- the API-key map, concurrently
\* AddAPIKey, RemoveAPIKey and validateAPIKey are called from the goroutines of
\* the requests being served.  Each works on the map a.apiKeys without taking
\* any lock, so an operation is modelled as entering the map access and
\* leaving it, and nothing keeps a goroutine from entering

\* whether an access of kind op by g overlaps another goroutine's access with at
\* least one of the two writing the map
Racing(g, op) ==
    \E h \in KeyGoroutines \ {g} :
        /\ keyAcc[h].op # "none"
        /\ (op \in {"add", "remove"} \/ keyAcc[h].op \in {"add", "remove"})

\* enter the map access of an operation.  A racing access is a data race on a
\* Go map: the runtime may stop the program ("concurrent map read and map
\* write", "concurrent map writes") or may not notice
mapaccess(g, op, k) ==
    /\ ~keyFault
    /\ keyAcc[g] = NoAccess
    /\ keyAcc' = [keyAcc EXCEPT ![g] = [op |-> op, key |-> k]]
    /\ keyFault' \in (IF Racing(g, op) THEN BOOLEAN ELSE {FALSE})
    /\ UNCHANGED chainVars
    /\ UNCHANGED nonKeyVars

\* AuthMiddleware.AddAPIKey: a.apiKeys[apiKey] = userID for a generated key
AddAPIKeyEnter(g, k) == k \notin apiKeys /\ mapaccess(g, "add", k)

\* AuthMiddleware.RemoveAPIKey: delete(a.apiKeys, apiKey)
RemoveAPIKeyEnter(g, k) == mapaccess(g, "remove", k)

\* AuthMiddleware.validateAPIKey, called by Handler for a request that carries
\* an API key: userID, exists := a.apiKeys[apiKey]
validateAPIKeyEnter(g, k) == mapaccess(g, "lookup", k)

\* the map access completes and the operation returns
mapreturn(g) ==
    /\ ~keyFault
    /\ keyAcc[g] # NoAccess
    /\ apiKeys' = CASE keyAcc[g].op = "add" -> apiKeys \cup {keyAcc[g].key}
                     [] keyAcc[g].op = "remove" -> apiKeys \ {keyAcc[g].key}
                     [] OTHER -> apiKeys
    /\ keyAcc' = [keyAcc EXCEPT ![g] = NoAccess]
    /\ UNCHANGED keyFault
    /\ UNCHANGED <<config, enabled, authType, chain, router, req, nUpdates>>
    /\ UNCHANGED nonKeyVars

KeyNext ==
    \/ \E g \in KeyGoroutines, k \in KeyNames : AddAPIKeyEnter(g, k)
    \/ \E g \in KeyGoroutines, k \in KeyNames : RemoveAPIKeyEnter(g, k)
    \/ \E g \in KeyGoroutines, k \in KeyNames : validateAPIKeyEnter(g, k)
    \/ \E g \in KeyGoroutines : mapreturn(g)

KeySpecInit ==
    HubInit /\ CreateEnhancedServer(CreateDefaultConfig) /\ FuncIdle /\ SessInit /\ FwdIdle /\ KeyIdle

KeySpec == KeySpecInit /\ [][KeyNext]_vars

\* ------------------------------------------- error reporting, token checks
\* ErrorMiddleware.HandleError(w, r, err, statusCode) with err.Error() = message:
\* choose the code, then writeErrorResponse, which sanitizes the message if
\* SanitizeSecrets is set and writes it
HandleError ==
    /\ errCode = ""
    /\ Len(emitted) < MaxEmits
    /\ errCode' = HandleErrorCode(statusCode)
    /\ emitted' = Append(emitted, [layer |-> "errors",
                                   text |-> IF sanitizeSecrets THEN sanitizeMessage(message)
                                            ELSE message])
    /\ UNCHANGED <<statusCode, message, sanitizeSecrets, jwt, jwtResult>>
    /\ UNCHANGED nonFuncVars

\* AuthMiddleware.writeUnauthorized(w, err.Error()) for an error of extractToken
\* or validateAPIKey: the message is formatted into the body as it is
writeUnauthorizedMessage(msg) ==
    /\ Len(emitted) < MaxEmits
    /\ \A i \in 1..Len(emitted) : emitted[i].layer # "auth"
    /\ emitted' = Append(emitted, [layer |-> "auth", text |-> msg])
    /\ UNCHANGED <<statusCode, errCode, message, sanitizeSecrets, jwt, jwtResult>>
    /\ UNCHANGED nonFuncVars

\* AuthMiddleware.validateToken on the presented bearer token
ValidateToken ==
    /\ jwtResult = "pending"
    /\ jwtResult' = validateJWT(jwt)
    /\ UNCHANGED <<statusCode, errCode, message, emitted, sanitizeSecrets, jwt>>
    /\ UNCHANGED nonFuncVars

FuncNext ==
    \/ HandleError
    \/ \E msg \in AuthMessages : writeUnauthorizedMessage(msg)
    \/ ValidateToken

\* the inputs: any status, any message, either setting of the flag, any token
FuncInit ==
    /\ statusCode \in StatusCodes
    /\ errCode = ""
    /\ message \in Messages
    /\ emitted = <<>>
    /\ sanitizeSecrets \in BOOLEAN
    /\ jwt \in Tokens
    /\ jwtResult = "pending"

\* the default server, about to report an error and to check a token
FuncSpecInit ==
    HubInit /\ CreateEnhancedServer(CreateDefaultConfig) /\ SessInit /\ FwdIdle /\ KeyIdle /\ FuncInit

FuncSpec == FuncSpecInit /\ [][FuncNext]_vars

\* -------------------------------------------------- Claude message requests
\* the clock advances
Tick ==
    /\ now < MaxClock
    /\ now' = now + 1
    /\ UNCHANGED <<sessions, heap, thr, nReqs>>
    /\ UNCHANGED <<gc, replies>>
    /\ UNCHANGED nonSessVars

\* handleClaudeMessage up to the decoded ClaudeRequest
DecodeRequest(t, sid, conv, model, ctx) ==
    /\ thr[t].pc = "idle"
    /\ nReqs < MaxReqs
    /\ nReqs' = nReqs + 1
    /\ thr' = [thr EXCEPT ![t] = [IdleThread EXCEPT !.pc = "decoded", !.SessionID = sid,
                                                     !.ConversationID = conv, !.Model = model,
                                                     !.Context = ctx]]
    /\ UNCHANGED <<now, sessions, heap>>
    /\ UNCHANGED <<gc, replies>>
    /\ UNCHANGED nonSessVars

\* variant of lookupSession that never finds the id
lookupSessionMiss(id) == 0

\* getOrCreateSession's lookup `if sessionID != "" { if session, exists :=
\* c.sessions[sessionID]; exists {`: the registered session, 0 for none
lookupSession(id) == IF id # 0 THEN sessions[id] ELSE 0

\* getOrCreateSession, one step because it holds c.mu throughout (and so waits
\* for a running CleanupSessions pass): return the registered session of that
\* id, or build a session (ids generated from the clock where the request has
\* none; the clock is read once per id and once per timestamp) and store it
\* under its id
getOrCreateSession(t) ==
    /\ thr[t].pc = "decoded"
    /\ gc.pc = "idle"
    /\ LET r == thr[t]
       IN IF lookupSession(r.SessionID) # 0
          THEN /\ thr' = [thr EXCEPT ![t].pc = "got", ![t].session = lookupSession(r.SessionID),
                                     ![t].reused = TRUE]
               /\ UNCHANGED <<now, sessions, heap>>
          ELSE \E t1, t2, t3, t4 \in Times :
                 /\ now <= t1 /\ t1 <= t2 /\ t2 <= t3 /\ t3 <= t4
                 /\ LET sessionID == IF r.SessionID = 0 THEN generateSessionID(t1)
                                     ELSE r.SessionID
                        conversationID == IF r.ConversationID = 0 THEN generateConversationID(t2)
                                          ELSE r.ConversationID
                        session == ClaudeSession(sessionID, conversationID,
                                                 defaultModel(r.Model), t3, t4)
                    IN /\ heap' = Append(heap, session)
                       /\ sessions' = [sessions EXCEPT ![sessionID] = Len(heap) + 1]
                       /\ thr' = [thr EXCEPT ![t].pc = "got", ![t].session = Len(heap) + 1]
                       /\ now' = t4
    /\ UNCHANGED nReqs
    /\ UNCHANGED <<gc, replies>>
    /\ UNCHANGED nonSessVars

\* handleClaudeMessage "Update session context": the request's string entries
\* are written into session.Context, outside any lock
UpdateContext(t) ==
    /\ thr[t].pc = "got"
    /\ heap' = [heap EXCEPT ![thr[t].session].Context = @ \cup thr[t].Context]
    /\ thr' = [thr EXCEPT ![t].pc = "forward"]
    /\ UNCHANGED <<now, sessions, nReqs>>
    /\ UNCHANGED <<gc, replies>>
    /\ UNCHANGED nonSessVars

\* forwardToClaudeCode returns: an error (handleClaudeMessage writes CLAUDE_ERROR
\* and returns) or the backend's reply with its status
Forward(t, ok, st) ==
    /\ thr[t].pc = "forward"
    /\ thr' = [thr EXCEPT ![t] = IF ok THEN [@ EXCEPT !.pc = "replied", !.Status = st]
                                  ELSE IdleThread]
    /\ UNCHANGED <<now, sessions, heap, nReqs>>
    /\ UNCHANGED <<gc, replies>>
    /\ UNCHANGED nonSessVars

\* `time.Now()` of `session.LastActivity = time.Now()` is evaluated
ReadClock(t) ==
    /\ thr[t].pc = "replied"
    /\ thr' = [thr EXCEPT ![t].pc = "stamped", ![t].stamp = now]
    /\ UNCHANGED <<now, sessions, heap, nReqs>>
    /\ UNCHANGED <<gc, replies>>
    /\ UNCHANGED nonSessVars

\* the value is stored in session.LastActivity, outside any lock
StoreLastActivity(t) ==
    /\ thr[t].pc = "stamped"
    /\ heap' = [heap EXCEPT ![thr[t].session].LastActivity = thr[t].stamp]
    /\ thr' = [thr EXCEPT ![t].pc = "status"]
    /\ UNCHANGED <<now, sessions, nReqs>>
    /\ UNCHANGED <<gc, replies>>
    /\ UNCHANGED nonSessVars

\* `session.Status = response.Status`, then the reply is written and the
\* handler returns
StoreStatus(t) ==
    /\ thr[t].pc = "status"
    /\ heap' = [heap EXCEPT ![thr[t].session].Status = thr[t].Status]
    /\ thr' = [thr EXCEPT ![t] = IdleThread]
    /\ UNCHANGED <<now, sessions, nReqs>>
    /\ UNCHANGED <<gc, replies>>
    /\ UNCHANGED nonSessVars

SessNext ==
    \/ Tick
    \/ \E t \in Threads, sid \in {0} \cup SessionIDs, conv \in {0} \cup ConversationIDs,
          model \in Models, ctx \in SUBSET ContextKeys : DecodeRequest(t, sid, conv, model, ctx)
    \/ \E t \in Threads : getOrCreateSession(t)
    \/ \E t \in Threads : UpdateContext(t)
    \/ \E t \in Threads, ok \in BOOLEAN, st \in ReplyStatuses : Forward(t, ok, st)
    \/ \E t \in Threads : ReadClock(t)
    \/ \E t \in Threads : StoreLastActivity(t)
    \/ \E t \in Threads : StoreStatus(t)

\* the default server with an empty session registry
SessSpecInit ==
    HubInit /\ CreateEnhancedServer(CreateDefaultConfig) /\ FuncIdle /\ FwdIdle /\ KeyIdle /\ SessInit

SessSpec == SessSpecInit /\ [][SessNext]_vars

\* ------------------------------------------- session endpoints and cleanup
\* the clock advances past the last request, up to the idle threshold
LateTick ==
    /\ now >= MaxClock
    /\ now < MaxClock + IdleThreshold
    /\ now' = now + 1
    /\ UNCHANGED <<sessions, heap, thr, nReqs, gc, replies>>
    /\ UNCHANGED nonSessVars

\* handleDeleteSession: the id is what follows /claude/session/ in the path (0
\* for nothing); `delete(c.sessions, sessionID)` under c.mu, then 204
handleDeleteSession(id) ==
    /\ Len(replies) < MaxOps
    /\ gc.pc = "idle"
    /\ sessions' = IF id = 0 THEN sessions ELSE [sessions EXCEPT ![id] = 0]
    /\ replies' = Append(replies, deleteSessionReply(id))
    /\ UNCHANGED <<now, heap, thr, nReqs, gc>>
    /\ UNCHANGED nonSessVars

\* handleGetSession: the lookup under c.mu.RLock, SESSION_NOT_FOUND or the
\* session
handleGetSession(id) ==
    /\ Len(replies) < MaxOps
    /\ gc.pc = "idle"
    /\ replies' = Append(replies, getSessionReply(id))
    /\ UNCHANGED <<now, sessions, heap, thr, nReqs, gc>>
    /\ UNCHANGED nonSessVars

\* performCleanup calls CleanupSessions(30 * time.Minute): c.mu is taken and the
\* cutoff computed; the range will visit the sessions registered now
CleanupSessions ==
    /\ gc.pc = "idle"
    /\ gc.passes < MaxPasses
    /\ gc' = [pc |-> "running", cutoff |-> Cutoff(now, IdleThreshold),
              todo |-> {id \in SessionIDs : sessions[id] # 0}, cur |-> 0, evicted |-> {},
              passes |-> gc.passes + 1]
    /\ UNCHANGED <<now, sessions, heap, thr, nReqs, replies>>
    /\ UNCHANGED nonSessVars

\* the range reaches a session, in any order, and evaluates
\* `session.LastActivity.Before(cutoff)`: a read of the field the request
\* goroutines write outside c.mu
CleanupVisit(id) ==
    /\ gc.pc = "running"
    /\ gc.cur = 0
    /\ id \in gc.todo
    /\ gc' = IF Expired(heap[sessions[id]].LastActivity, gc.cutoff)
             THEN [gc EXCEPT !.cur = id]
             ELSE [gc EXCEPT !.todo = @ \ {id}]
    /\ UNCHANGED <<now, sessions, heap, thr, nReqs, replies>>
    /\ UNCHANGED nonSessVars

\* `delete(c.sessions, sessionID)` of the session found expired
CleanupDelete ==
    /\ gc.pc = "running"
    /\ gc.cur # 0
    /\ sessions' = [sessions EXCEPT ![gc.cur] = 0]
    /\ gc' = [gc EXCEPT !.cur = 0, !.todo = @ \ {gc.cur}, !.evicted = @ \cup {gc.cur}]
    /\ UNCHANGED <<now, heap, thr, nReqs, replies>>
    /\ UNCHANGED nonSessVars

\* the range is over: the deferred c.mu.Unlock()
CleanupReturn ==
    /\ gc.pc = "running"
    /\ gc.cur = 0
    /\ gc.todo = {}
    /\ gc' = [gc EXCEPT !.pc = "idle"]
    /\ UNCHANGED <<now, sessions, heap, thr, nReqs, replies>>
    /\ UNCHANGED nonSessVars

\* the request goroutine that runs beside the session endpoints and the cleanup
GcThreads == {1}

\* message requests without conversation id, model or context on one goroutine,
\* the session endpoints and the periodic cleanup
GcNext ==
    \/ Tick
    \/ LateTick
    \/ \E t \in GcThreads, sid \in {0} \cup SessionIDs : DecodeRequest(t, sid, 0, "", {})
    \/ \E t \in GcThreads : getOrCreateSession(t)
    \/ \E t \in GcThreads : UpdateContext(t)
    \/ \E t \in GcThreads, ok \in BOOLEAN : Forward(t, ok, "active")
    \/ \E t \in GcThreads : ReadClock(t)
    \/ \E t \in GcThreads : StoreLastActivity(t)
    \/ \E t \in GcThreads : StoreStatus(t)
    \/ \E id \in {0} \cup SessionIDs : handleDeleteSession(id)
    \/ \E id \in {0} \cup SessionIDs : handleGetSession(id)
    \/ CleanupSessions
    \/ \E id \in SessionIDs : CleanupVisit(id)
    \/ CleanupDelete
    \/ CleanupReturn

GcSpecInit ==
    HubInit /\ CreateEnhancedServer(CreateDefaultConfig) /\ FuncIdle /\ FwdIdle /\ KeyIdle /\ SessInit

GcSpec == GcSpecInit /\ [][GcNext]_vars

\* -------------------------------------------------------- one forward
\* handleClaudeMessage from forwardToClaudeCode on: an error is answered with
\* writeError(500, CLAUDE_ERROR, err.Error()), a reply is encoded as the body
ForwardRequest ==
    /\ fwd.state = "pending"
    /\ LET res == forwardToClaudeCode(script, maxRetries, decodable)
       IN fwd' = [state |-> "done", calls |-> res.calls, err |-> res.err,
                  resp |-> handleClaudeMessage(NoRequest, IF res.err = "" THEN 200 ELSE 500)]
    /\ UNCHANGED <<script, maxRetries, decodable>>
    /\ UNCHANGED nonFwdVars

\* the next request is forwarded to the same backend
NextForward ==
    /\ fwd.state = "done"
    /\ fwd' = NoForward
    /\ UNCHANGED <<script, maxRetries, decodable>>
    /\ UNCHANGED nonFwdVars

FwdNext == ForwardRequest \/ NextForward

\* any backend behaviour, any number of retries configured
FwdInit ==
    /\ script \in Scripts
    /\ maxRetries \in 0..MaxRetries
    /\ decodable \in BOOLEAN
    /\ fwd = NoForward

FwdSpecInit ==
    HubInit /\ CreateEnhancedServer(CreateDefaultConfig) /\ FuncIdle /\ SessInit /\ KeyIdle /\ FwdInit

FwdSpec == FwdSpecInit /\ [][FwdNext]_vars

\* --------------------------------------------------------------- claims
\* C1: in every completed broadcast step, a registered connection is offered the
\* envelope (enqueued, or found full and dropped) if and only if every non-empty
\* target of the envelope equals the connection's corresponding field.
C1_FilterIsConjunction ==
    [][(broadcast # <<>> /\ broadcast' = Tail(broadcast) /\ panic' = "none") =>
         LET m == Head(broadcast)
         IN \A c \in clients :
              (nEnq'[c] = nEnq[c] + 1 \/ (closed'[c] /\ ~closed[c]))
              <=> /\ (m.UserID = "" \/ client[c].UserID = m.UserID)
                  /\ (m.AgentID = "" \/ client[c].AgentID = m.AgentID)]_vars

\* C2: in every completed broadcast step, each selected registered connection
\* whose queue is full has its queue closed and is out of the registry when the
\* step ends; and the supervisor, at its select with an envelope pending, can
\* always take the broadcast step whatever the connections' queues hold.
C2_SlowConsumerDropped ==
    /\ [][(broadcast # <<>> /\ broadcast' = Tail(broadcast) /\ panic' = "none") =>
            \A c \in clients :
                (shouldReceiveMessage(c, Head(broadcast)) /\ Len(Send[c]) = BufferSize)
                => (closed'[c] /\ c \notin clients' /\ Send'[c] = Send[c])]_vars
    /\ []((Alive /\ hub.pc = "select" /\ broadcast # <<>>) => ENABLED broadcastMessage)

\* a duplex connection dropped by a broadcast that found its queue full
C2_Witness ==
    \E c \in Conns :
        /\ Alive
        /\ client[c].kind = "ws"
        /\ rpc[c] = "read"
        /\ c \notin clients
        /\ closed[c]
        /\ removed[c] = 1
        /\ Len(Send[c]) = BufferSize

C4_NoEnqueueAfterClose == panic # "send on closed channel"

\* C5: over its lifetime a connection is deleted from the registry at most once
\* and is sent to the unregister channel at most once.
C5_AtMostOnce == \A c \in Conns : removed[c] <= 1 /\ unregSent[c] <= 1

\* a connection dropped by overflow whose reader then exited through unregister
C5_Witness ==
    \E c \in Conns :
        /\ Alive
        /\ removed[c] = 1
        /\ unregSent[c] = 1
        /\ rpc[c] = "done"
        /\ Len(Send[c]) = BufferSize

\* C6: for every connection, the envelopes written to the peer are the first
\* ones enqueued, each once, in enqueue order (enqueue stamps 1, 2, ..., n).
C6_Fifo == \A c \in Conns : written[c] = [i \in 1..Len(written[c]) |-> i]

\* a connection that has written two envelopes while a third waits in its queue
C6_Witness ==
    \E c \in Conns : Len(written[c]) >= 2 /\ Send[c] # <<>> /\ Len(Send[c]) + Len(written[c]) = nEnq[c]

\* C7: after the root context is cancelled, the hub supervisor, the heartbeat
\* task and the manager's cleanup task each eventually terminate (the process
\* dying of a panic ends them too), however full the broadcast channel is.
C7_BackgroundTasksTerminate ==
    cancelled ~> (~Alive \/ (hub.pc = "done" /\ hbPc = "done" /\ clPc = "done"))

\* C8: once the supervisor has stopped, every per-connection task (duplex
\* reader, duplex writer, event-stream loop) eventually has exited; none stays
\* blocked on a hub channel or on its outbound queue.
C8_ConnectionTasksExit ==
    (hub.pc = "done") ~>
        (~Alive \/ \A c \in Conns : /\ rpc[c] \notin {"read", "unregister"}
                                    /\ wpc[c] \notin {"run", "sse"})

\* C9: the chain is the enabled layers in the fixed order, at construction and
\* after every UpdateConfig (each layer's flag being the configured one); and a
\* request that entered after the last configuration change reaches a layer
\* only after every enabled earlier layer has run for it.
C9_FixedOrder ==
    /\ [](LET IsEnabled(l) == enabled[l] IN chain = SelectSeq(Layers, IsEnabled))
    /\ [](\A l \in LayerSet : enabled[l] = config.Enabled[l])
    /\ [][(req.state = "running" /\ ~req'.stale /\ Len(req'.ran) = Len(req.ran) + 1) =>
            LET l == req'.ran[Len(req'.ran)]
                Pos(x) == CHOOSE i \in 1..Len(Layers) : Layers[i] = x
            IN \A k \in LayerSet :
                 (Pos(k) < Pos(l) /\ enabled[k]) => \E i \in 1..Len(req.ran) : req.ran[i] = k]_vars

C11_AuthOptionalNotRejected ==
    (req.path \in {"health", "login"} /\ req.cred = "none") => ~req.authFailed

\* C12: for every HTTP request the chain has finished (a WebSocket upgrade
\* aside), exactly one standard response envelope has been written, whichever
\* layer ended the request: the authenticator, the validator, the session layer,
\* a route's handler, or the panic recovery after a handler wrote its response.
C12_ExactlyOneEnvelope ==
    (req.state = "done" /\ req.path # "ws") => (req.envelopes = 1 /\ ~req.raw)

\* C13: a request's request_id, once on its RequestContext, never changes, and
\* every finished request that was answered with an envelope has a RequestContext
\* whose request_id equals the envelope's request_id and, when the response
\* layer handled the request, the X-Request-ID header.
C13_RequestIdStable ==
    /\ [][(req.state = "running" /\ req.ctxID # "" /\ req'.state # "idle" /\ req'.pos >= req.pos)
            => req'.ctxID = req.ctxID]_vars
    /\ []((req.state = "done" /\ req.envelopes >= 1) =>
            /\ req.ctxID # ""
            /\ req.envID = req.ctxID
            /\ (\E i \in 1..Len(req.ran) : req.ran[i] = "response") => req.hdrID = req.ctxID)

\* C14: a panic raised below the enabled error-recovery layer is captured by it:
\* the request ends with status 500 and an envelope with code
\* INTERNAL_SERVER_ERROR, and the panic does not leave the chain.
C14_PanicCaptured ==
    (/\ req.state = "done"
     /\ (req.recovered \/ req.escaped)
     /\ \E i \in 1..Len(req.ran) : req.ran[i] = "errors")
        => (/\ ~req.escaped
            /\ req.status = 500
            /\ req.code = "INTERNAL_SERVER_ERROR"
            /\ req.envelopes >= 1)

\* C15: for an explicitly reported error the code chosen for each of the 13
\* statuses of the table is the table's: 400 BAD_REQUEST, 401 UNAUTHORIZED,
\* 403 FORBIDDEN, 404 NOT_FOUND, 405 METHOD_NOT_ALLOWED, 408 REQUEST_TIMEOUT,
\* 409 CONFLICT, 422 UNPROCESSABLE_ENTITY, 429 RATE_LIMITED,
\* 500 INTERNAL_SERVER_ERROR, 502 BAD_GATEWAY, 503 SERVICE_UNAVAILABLE,
\* 504 GATEWAY_TIMEOUT.
C15_StatusCodeTable ==
    LET Table == [st \in StatusCodes \ {418} |->
                    CASE st = 400 -> "BAD_REQUEST"
                      [] st = 401 -> "UNAUTHORIZED"
                      [] st = 403 -> "FORBIDDEN"
                      [] st = 404 -> "NOT_FOUND"
                      [] st = 405 -> "METHOD_NOT_ALLOWED"
                      [] st = 408 -> "REQUEST_TIMEOUT"
                      [] st = 409 -> "CONFLICT"
                      [] st = 422 -> "UNPROCESSABLE_ENTITY"
                      [] st = 429 -> "RATE_LIMITED"
                      [] st = 500 -> "INTERNAL_SERVER_ERROR"
                      [] st = 502 -> "BAD_GATEWAY"
                      [] st = 503 -> "SERVICE_UNAVAILABLE"
                      [] st = 504 -> "GATEWAY_TIMEOUT"]
    IN (errCode # "" /\ statusCode \in DOMAIN Table) => errCode = Table[statusCode]

\* C16: with sanitize_secrets on, no error message emitted to a client by any
\* layer contains, in any letter case, one of the sensitive keys password,
\* token, key, secret, auth, credential.
C16_NoSensitiveSubstring ==
    sanitizeSecrets => \A i \in 1..Len(emitted) : ~Sensitive(emitted[i].text)

\* C17: bearer validation accepts a token only if its HMAC signature verifies
\* and its claims include the principal (user_id), iss equal to the configured
\* issuer, exp in the future and iat not in the future; any other token is rejected.
C17_BearerClaimsChecked ==
    jwtResult = "accepted" =>
        /\ jwt.signed
        /\ jwt.user_id = "string"
        /\ jwt.iss = "configured"
        /\ jwt.exp = "future"
        /\ jwt.iat = "past"

\* C18: get-or-create.  If the request carries a session id that is in the
\* registry, that session is returned and neither it nor the registry changes;
\* otherwise a new session is created with the request's ids where given and
\* allocated ids where omitted, the request's model or claude-3-sonnet when
\* omitted, empty tools, empty context and status active, and the registry maps
\* its session id to it.
C18_GetOrCreate ==
    [][\A t \in Threads :
         (thr[t].pc = "decoded" /\ thr'[t].pc = "got") =>
            LET r == thr[t]
                ref == thr'[t].session
            IN IF r.SessionID # 0 /\ sessions[r.SessionID] # 0
               THEN /\ ref = sessions[r.SessionID]
                    /\ heap' = heap
                    /\ sessions' = sessions
               ELSE /\ ref = Len(heap) + 1
                    /\ Len(heap') = Len(heap) + 1
                    /\ \A i \in 1..Len(heap) : heap'[i] = heap[i]
                    /\ heap'[ref].ID # 0
                    /\ r.SessionID # 0 => heap'[ref].ID = r.SessionID
                    /\ heap'[ref].ConversationID # 0
                    /\ r.ConversationID # 0 => heap'[ref].ConversationID = r.ConversationID
                    /\ heap'[ref].Model = IF r.Model = "" THEN "claude-3-sonnet" ELSE r.Model
                    /\ heap'[ref].Tools = <<>>
                    /\ heap'[ref].Context = {}
                    /\ heap'[ref].Status = "active"
                    /\ sessions'[heap'[ref].ID] = ref]_vars

\* one request without session id or model got a new session with the default
\* model while another request got a registered session back
C18_Witness ==
    \E t, u \in Threads :
        /\ t # u
        /\ thr[t].pc = "got" /\ thr[t].reused
        /\ thr[u].pc = "got" /\ ~thr[u].reused
        /\ thr[u].SessionID = 0 /\ thr[u].Model = ""
        /\ heap[thr[u].session].Model = "claude-3-sonnet"
        /\ sessions[heap[thr[u].session].ID] = thr[u].session

\* C19: session ids are unique across the registry: creating a session never
\* replaces a registered session, whatever clock values the creations observe,
\* and the id the server allocates for a new session is not that of a
\* registered session.
C19_SessionIdUnique ==
    [][Len(heap') > Len(heap) =>
         \A id \in SessionIDs : sessions[id] # 0 => sessions'[id] = sessions[id]]_vars

\* C20: the last_activity of every session never decreases, in any sequence and
\* interleaving of forwards on the session, concurrent completions included.
C20_LastActivityMonotone ==
    [][\A ref \in 1..Len(heap) : heap'[ref].LastActivity >= heap[ref].LastActivity]_vars

C23_DeleteIdempotent ==
    [][(Len(replies') = Len(replies) + 1 /\ replies'[Len(replies')].op = "delete"
            /\ replies'[Len(replies')].id # 0)
        => LET id == replies'[Len(replies')].id
           IN /\ replies'[Len(replies')].status = 204
              /\ sessions'[id] = 0
              /\ \A o \in SessionIDs \ {id} : sessions'[o] = sessions[o]
              /\ sessions[id] = 0 => sessions' = sessions
              /\ heap' = heap]_vars

\* two DELETEs of the id of a session that a request had registered, both 204
C23_Witness ==
    /\ Len(replies) = 2
    /\ replies[1] = Reply("delete", replies[1].id, 204, "")
    /\ replies[2] = replies[1]
    /\ gc.passes = 0
    /\ sessions[replies[1].id] = 0
    /\ \E h \in 1..Len(heap) : heap[h].ID = replies[1].id

C25_IdleSessionsCollected ==
    [][/\ (gc.pc = "running" /\ gc'.pc = "idle")
            => \A id \in SessionIDs :
                 sessions'[id] # 0 => ~Expired(heap'[sessions'[id]].LastActivity, gc.cutoff)
       /\ (Len(replies') = Len(replies) + 1 /\ replies'[Len(replies')].op = "get"
             /\ replies'[Len(replies')].id \in gc.evicted
             /\ sessions[replies'[Len(replies')].id] = 0)
            => /\ replies'[Len(replies')].status = 404
               /\ replies'[Len(replies')].code = "NOT_FOUND"]_vars

\* C26: an oversize POST /claude/message is refused by the validator.  While
\* the validator is enabled (and the configuration has not changed since the
\* request entered), a Claude request whose Content-Length exceeds the maximum
\* never reaches the session layer or a route's handler, and unless the
\* authenticator refused it first it is finished with status 400 and code
\* VALIDATION_ERROR.
C26_OversizeRejected ==
    [][(req.state = "running" /\ req.path = "claude" /\ req.oversize /\ req'.oversize
            /\ enabled["validation"] /\ ~req.stale /\ ~req'.stale)
        => /\ \A i \in 1..Len(req'.ran) : req'.ran[i] # "claude"
           /\ ~req'.handler
           /\ (req'.state = "done" /\ ~req'.authFailed)
                => (req'.status = 400 /\ req'.code = "VALIDATION_ERROR")]_vars

\* C27: hot reload is validated before it is applied.  Every step that changes
\* the manager's configuration or a layer's configuration (its enabled flag,
\* the authenticator's type) or the chain ends in a configuration that passes
\* ValidateConfig; a rejected configuration changes none of them.
C27_ValidatedBeforeApply ==
    [][(config' # config \/ enabled' # enabled \/ authType' # authType \/ chain' # chain)
        => ValidateConfig(config')]_vars

\* C28: a posted message reaches every subscriber of its agent.  The
\* message_update envelope that handleSendMessage puts on the broadcast channel
\* carries the message's id, and when the supervisor takes it from the channel
\* it is enqueued on the queue of every connection registered at that time
\* whose subject id is the envelope's agent id.
C28_RoundTrip ==
    [][(broadcast # <<>> /\ broadcast' = Tail(broadcast)
            /\ Head(broadcast).type = "message_update")
        => LET m == Head(broadcast)
           IN /\ m.Data = MessageID
              /\ \A c \in clients :
                   client[c].AgentID = m.AgentID
                     => /\ Len(Send'[c]) = Len(Send[c]) + 1
                        /\ Send'[c][Len(Send'[c])].msg = m]_vars

\* C29: no task stays blocked forever on a send to a hub channel.  A WebSocket
\* accept blocked in `s.register <- client`, a reader blocked in its deferred
\* `s.unregister <- client` and a task blocked in `s.broadcast <- message` each
\* eventually get past the send (or the process has died), whether the
\* supervisor is running or has shut down.
C29_NoSendBlocksForever ==
    /\ \A c \in Conns : (rpc[c] = "accept") ~> (~Alive \/ rpc[c] # "accept")
    /\ \A c \in Conns : (rpc[c] = "unregister") ~> (~Alive \/ rpc[c] # "unregister")
    /\ (hbPc = "send") ~> (~Alive \/ hbPc # "send")

\* C30: the registry is mutated by the supervisor only.  Every step that
\* inserts a connection into the registry or deletes one from it, for duplex
\* and event-stream connections alike, is a step of the hub supervisor:
\* registerClient, unregisterClient or broadcastMessage.
C30_RegistryOwnedBySupervisor ==
    [][clients' # clients
        => \/ hub.pc = "register" /\ hub'.pc = "select"
           \/ \E c \in Conns : hub.pc = "select" /\ rpc[c] = "unregister" /\ rpc'[c] = "done"
           \/ hub.pc = "select" /\ broadcast # <<>> /\ broadcast' = Tail(broadcast)]_vars

\* C31: the per-connection tasks exit when the outbound queue is closed.  Once
\* the queue of a duplex or event-stream connection has been closed, its writer
\* or event-stream loop emits no frame that is not an envelope taken from the
\* queue, and eventually terminates, and the duplex reader eventually leaves
\* its read loop (the process dying of a panic ends them too).
C31_TasksExitOnClosedQueue ==
    /\ [](\A c \in Conns : ~sseNull[c])
    /\ \A c \in Conns : (closed[c] /\ wpc[c] \in {"run", "sse"})
                           ~> (~Alive \/ wpc[c] \in {"done", "failed"})
    /\ \A c \in Conns : (closed[c] /\ rpc[c] = "read") ~> (~Alive \/ rpc[c] # "read")

C33_SessionStatusValid ==
    \A h \in 1..Len(heap) : heap[h].Status \in {"active", "ended", "failed"}

\* C34: hot reconfiguration isolates in-flight requests.  Every layer a request
\* passes acts on the configuration that was in force when the request entered
\* the chain: the layer does its work if and only if it was enabled then, and
\* the authenticator treats the credential under the auth type of then,
\* whatever UpdateConfig has stored since.
C34_InFlightSeesSnapshot ==
    [][(req.state = "running" /\ req.pos <= Len(router)
            /\ (req'.pos = req.pos + 1 \/ req'.state = "done"))
        => LET l == router[req.pos]
           IN /\ (Len(req'.ran) = Len(req.ran) + 1) <=> EntryConfig.Enabled[l]
              /\ (l = "auth" /\ EntryConfig.Enabled[l])
                   => (req'.authFailed
                         <=> validateToken(EntryConfig.Type,
                                           extractToken(EntryConfig.Type, req.cred)) = "")]_vars

\* C35: the API-key map is accessed under mutual exclusion: while one goroutine
\* is inside the map write of AddAPIKey or RemoveAPIKey, no other goroutine is
\* inside an AddAPIKey, RemoveAPIKey or validateAPIKey access
C35_ApiKeyAccessExclusive ==
    \A g \in KeyGoroutines, h \in KeyGoroutines :
        (g # h /\ keyAcc[g].op \in {"add", "remove"}) => keyAcc[h].op = "none"

\* C36: no outbound queue is closed twice: no closer (broadcast overflow, failed
\* welcome, pong overflow, unregister, event-stream cleanup) ever closes a queue
\* that is already closed, which in Go is the panic "close of closed channel"
C36_NoDoubleClose == panic # "close of closed channel"

\* C37: on every accepted duplex connection the welcome envelope is the first
\* envelope enqueued: the envelope that a duplex connection's queue received
\* first (stamp 1) is its welcome, never a pong or a broadcast envelope
C37_WelcomeFirst ==
    \A c \in Conns :
        client[c].kind = "ws" =>
            \A i \in 1..Len(Send[c]) :
                Send[c][i].seq = 1 => Send[c][i].msg.type = "welcome"

\* C38: a forward that fails leaves the session registry as it was before the
\* request: the request whose forward fails has not added a session to the
\* registry, that is, the session it addressed was found there, not created
C38_FailedForwardLeavesRegistry ==
    [][\A t \in Threads :
          (thr[t].pc = "forward" /\ thr'[t].pc = "idle") => thr[t].reused]_vars

\* C39: get-or-create calls that carry the same session id obtain the same
\* session object and create one session for it: a call that carries an id
\* creates and registers a session only if the registry has none under that id,
\* and otherwise returns the registered object and creates nothing
C39_SameIdSameSession ==
    [][\A t \in Threads :
          (thr[t].pc = "decoded" /\ thr'[t].pc = "got" /\ thr[t].SessionID # 0)
              => IF sessions[thr[t].SessionID] # 0
                 THEN /\ thr'[t].session = sessions[thr[t].SessionID]
                      /\ sessions' = sessions
                      /\ heap' = heap
                 ELSE /\ Len(heap') = Len(heap) + 1
                      /\ thr'[t].session = Len(heap')
                      /\ heap'[Len(heap')].ID = thr[t].SessionID
                      /\ sessions' = [sessions EXCEPT ![thr[t].SessionID] = Len(heap')]]_vars

\* two requests in flight carried the same session id when none was registered:
\* one call created the session, the other got that object, and the heap holds
\* one session of that id
C39_Witness ==
    \E t, u \in Threads :
        /\ t # u
        /\ thr[t].SessionID # 0 /\ thr[u].SessionID = thr[t].SessionID
        /\ thr[t].pc = "got" /\ ~thr[t].reused
        /\ thr[u].pc = "got" /\ thr[u].reused
        /\ thr[u].session = thr[t].session
        /\ sessions[thr[t].SessionID] = thr[t].session
        /\ Cardinality({h \in 1..Len(heap) : heap[h].ID = thr[t].SessionID}) = 1

\* C40: the session object a successful forward updates is the object stored in
\* the registry under its id: whenever a request stores last_activity or status
\* into its session, the registry maps that session's id to that very object
C40_UpdateHitsRegisteredSession ==
    [][\A t \in Threads :
          (thr[t].pc \in {"stamped", "status"} /\ thr'[t].pc # thr[t].pc)
              => sessions[heap[thr[t].session].ID] = thr[t].session]_vars

====
